---- MODULE Spec2Model ----
(***************************************************************************)
(* MemoryCore: the memory orchestrator (MemoryManager), the Memory entity, *)
(* and the two storage backends of the repository (InMemoryBackend and     *)
(* ChromaDBBackend), as a state machine.                                   *)
(*                                                                         *)
(* Text is a sequence of one-character strings, so that str.strip() is     *)
(* computed and not assumed.  An optional value (Python's None) is a       *)
(* sequence of length 0 or 1: None is <<>>, a present value x is <<x>>.    *)
(***************************************************************************)
EXTENDS Integers, Sequences, FiniteSets, TLC

VARIABLES
    settings,     \* Settings: tenant_id, enable_versioning, default_ttl_days, backend
    memories,     \* InMemoryBackend._memories, a dict in insertion order
    embeddings,   \* InMemoryBackend._embeddings, keyed by <<id, tenant>>
    collection,   \* ChromaDBBackend.collection: id -> stored row
    next_id,      \* the ids uuid4() has handed out so far are 1..next_id-1
    now,          \* datetime.now(timezone.utc), in ticks
    last,         \* the outcome of the latest public call
    faults,       \* which collaborators of the manager raise when they are called
    handlers,     \* SimpleEventBus._handlers: event type -> handlers, in order
    closed,       \* close() has been called on the storage backend
    pending,      \* the update and the delete that are suspended at an await
    inflight      \* the calls that run as concurrent tasks, each where it awaits

vars == <<settings, memories, embeddings, collection, next_id, now, last,
          faults, handlers, closed, pending, inflight>>

\* what the calls of the manager and the reads and writes of a backend
\* leave as it is
rest == <<faults, handlers, closed, pending, inflight>>

----------------------------------------------------------------------------
(* Bounds of the model *)

\* Every call that writes to the storage happens at a later tick of the
\* clock than the one before it; no call writes once the clock shows MaxTime.
MaxTime == 2

\* The runs of the reference backend alone store at most MaxStored memories.
MaxStored == 3

\* No event type has more than MaxSubscriptions subscriptions at a time.
MaxSubscriptions == 3

\* The tasks that run at the same time complete at most MaxUpdates updates.
MaxUpdates == 2

(* Program constants *)

\* stop_after_attempt(3) of both retry wrappers
MaxAttempts == 3

\* wait_exponential(multiplier=1, min=1, max=10) of both retry wrappers,
\* in seconds; the base of wait_exponential is 2
WaitMultiplier == 1

WaitMin == 1

WaitMax == 10

WaitBase == 2

----------------------------------------------------------------------------
(* Optional values *)

None == <<>>
Some(x) == <<x>>
IsNone(o) == o = <<>>
Val(o) == o[1]

----------------------------------------------------------------------------
(* Numbers *)

Min(a, b) == IF a <= b THEN a ELSE b

Max(a, b) == IF a >= b THEN a ELSE b

RECURSIVE Pow(_, _)
Pow(b, n) == IF n = 0 THEN 1 ELSE b * Pow(b, n - 1)

----------------------------------------------------------------------------
(* Text *)

IsSpace(ch) == ch = " "

RECURSIVE LStrip(_)
LStrip(s) ==
    IF s = <<>> THEN s
    ELSE IF IsSpace(Head(s)) THEN LStrip(Tail(s)) ELSE s

RECURSIVE RStrip(_)
RStrip(s) ==
    IF s = <<>> THEN s
    ELSE IF IsSpace(s[Len(s)]) THEN RStrip(SubSeq(s, 1, Len(s) - 1)) ELSE s

\* a strip that forgets the trailing blanks
StripLeadingOnly(s) == LStrip(s)

\* str.strip()
Strip(s) == RStrip(LStrip(s))

\* truth value of a str: the empty string is falsy
Truthy(s) == s # <<>>

\* truth value of an Optional[str] argument: None and "" are falsy
TruthyOpt(o) == (~IsNone(o)) /\ Truthy(Val(o))

RECURSIVE CountChar(_, _)
CountChar(s, ch) ==
    IF s = <<>> THEN 0
    ELSE (IF Head(s) = ch THEN 1 ELSE 0) + CountChar(Tail(s), ch)

----------------------------------------------------------------------------
(* Collaborators *)

\* EmbeddingService.embed: a deterministic vector of fixed dimension, which
\* (as a tokenizer does) does not depend on the blanks around the words
Embed(text) == <<CountChar(text, "a"), CountChar(text, "b")>>

Tenants == {"A", "B"}

\* MemoryMetadata(): the field defaults
DefaultMetadata == [category |-> "general", tags |-> <<>>, importance |-> "medium"]

WorkMetadata == [category |-> "work", tags |-> <<"db", "prod">>, importance |-> "high"]

\* the ids the callers use: the ones uuid4() can have handed out
Ids == 1..MaxTime

(* The arguments the callers pass *)

\* content that save and update reject, and content they accept
BlankTexts == {<<>>, <<" ">>}

GoodTexts == {<<"a">>, <<" ", "b", " ">>}

\* a tenant argument: absent (the configured tenant is used) or "B"
TenantArgs == {None, Some("B")}

MetadataArgs == {None, Some(WorkMetadata)}

----------------------------------------------------------------------------
(* The Memory entity *)

\* Memory.validate_content: rejects blank content, returns it stripped
ContentValid(v) == Truthy(v) /\ Truthy(Strip(v))

validate_content(v) == Strip(v)

\* a Memory whose embedding defaults to the empty list
NewMemoryEmptyEmbedding(id, content, metadata, tenant, embedding, t) ==
    [id |-> id,
     content |-> Strip(content),
     metadata |-> metadata,
     embedding |-> IF IsNone(embedding) THEN Some(<<>>) ELSE embedding,
     tenant_id |-> tenant,
     created_at |-> t,
     updated_at |-> t,
     expires_at |-> None,
     versions |-> <<>>,
     version |-> 1]

\* Memory(id=..., content=..., metadata=..., tenant_id=...) with the field
\* defaults: no embedding, no expiry, version 1, empty history
NewMemory(id, content, metadata, tenant, embedding, t) ==
    [id |-> id,
     content |-> validate_content(content),
     metadata |-> metadata,
     embedding |-> embedding,
     tenant_id |-> tenant,
     created_at |-> t,
     updated_at |-> t,
     expires_at |-> None,
     versions |-> <<>>,
     version |-> 1]

\* a create_version that forgets to count
create_version_keep_number(m, changed_fields, t) ==
    [m EXCEPT
        !.versions = Append(@, [version |-> m.version,
                                created_at |-> m.updated_at,
                                content |-> m.content,
                                changed_fields |-> changed_fields]),
        !.updated_at = t]

\* a create_version that forgets the snapshot
create_version_no_record(m, changed_fields, t) ==
    [m EXCEPT !.version = @ + 1, !.updated_at = t]

\* Memory.create_version
create_version(m, changed_fields, t) ==
    [m EXCEPT
        !.versions = Append(@, [version |-> m.version,
                                created_at |-> m.updated_at,
                                content |-> m.content,
                                changed_fields |-> changed_fields]),
        !.version = @ + 1,
        !.updated_at = t]

\* Memory.set_ttl
set_ttl(m, days, t) == [m EXCEPT !.expires_at = Some(t + days)]

\* a memory that counts as expired at the very time it expires
is_expired_inclusive(m, t) ==
    IF IsNone(m.expires_at) THEN FALSE ELSE t >= Val(m.expires_at)

\* Memory.is_expired
is_expired(m, t) ==
    IF IsNone(m.expires_at) THEN FALSE ELSE t > Val(m.expires_at)

\* truth value of Optional[list[float]]: None and [] are falsy
TruthyEmbedding(e) == (~IsNone(e)) /\ Val(e) # <<>>

----------------------------------------------------------------------------
(* InMemoryBackend *)

Key(m) == <<m.id, m.tenant_id>>

\* position of key <<id, tenant>> in the dict, 0 when absent
IndexOf(mems, id, tenant) ==
    LET hits == {i \in 1..Len(mems) : Key(mems[i]) = <<id, tenant>>}
    IN  IF hits = {} THEN 0 ELSE CHOOSE i \in hits : TRUE

\* a get that looks the id up whatever the tenant
InMemoryGetById(mems, id, tenant) ==
    LET hits == {i \in 1..Len(mems) : mems[i].id = id}
    IN  IF hits = {} THEN None ELSE Some(mems[CHOOSE i \in hits : TRUE])

\* InMemoryBackend.get: self._memories.get((memory_id, tenant_id))
InMemoryGet(mems, id, tenant) ==
    LET i == IndexOf(mems, id, tenant)
    IN  IF i = 0 THEN None ELSE Some(mems[i])

\* a save that writes over the first entry of the dict, whatever its key
InMemorySaveOverFirst(mems, m) ==
    IF mems = <<>> THEN <<m>> ELSE [mems EXCEPT ![1] = m]

\* InMemoryBackend.save, the _memories part: a dict assignment keeps the
\* position of an existing key and appends a new one
InMemorySave(mems, m) ==
    LET i == IndexOf(mems, m.id, m.tenant_id)
    IN  IF i = 0 THEN Append(mems, m) ELSE [mems EXCEPT ![i] = m]

\* InMemoryBackend.save, the _embeddings part
InMemorySaveEmbedding(embs, m) ==
    IF TruthyEmbedding(m.embedding)
    THEN [k \in DOMAIN embs \cup {Key(m)} |->
            IF k = Key(m) THEN Val(m.embedding) ELSE embs[k]]
    ELSE embs

\* a delete that removes the id under every tenant
InMemoryDeleteById(mems, id, tenant) ==
    SelectSeq(mems, LAMBDA m : m.id # id)

\* a delete that leaves the dict as it is
InMemoryDeleteNothing(mems, id, tenant) == mems

\* InMemoryBackend.delete, the _memories part: pop(key, None)
InMemoryDelete(mems, id, tenant) ==
    SelectSeq(mems, LAMBDA m : Key(m) # <<id, tenant>>)

\* InMemoryBackend.delete, the _embeddings part
InMemoryDeleteEmbedding(embs, id, tenant) ==
    [k \in DOMAIN embs \ {<<id, tenant>>} |-> embs[k]]

\* A filters argument is None or a dict with the optional keys "category"
\* and "tags"; `if filters:` is false for None and for the empty dict
NoKeys == [category |-> None, tags |-> None]

TruthyFilters(filters) == (~IsNone(filters)) /\ Val(filters) # NoKeys

SetOfSeq(s) == {s[i] : i \in DOMAIN s}

\* a test that is content with one of the required tags
PassesFiltersAnyTag(memory, f) ==
    /\ IsNone(f.category) \/ memory.metadata.category = Val(f.category)
    /\ IsNone(f.tags) \/ Val(f.tags) = <<>>
        \/ SetOfSeq(Val(f.tags)) \cap SetOfSeq(memory.metadata.tags) # {}

\* the test of one memory in _apply_filters / _apply_filters_to_memories
PassesFilters(memory, f) ==
    /\ IsNone(f.category) \/ memory.metadata.category = Val(f.category)
    /\ IsNone(f.tags) \/ SetOfSeq(Val(f.tags)) \subseteq SetOfSeq(memory.metadata.tags)

\* InMemoryBackend._apply_filters_to_memories
ApplyFiltersToMemories(ms, f) == SelectSeq(ms, LAMBDA m : PassesFilters(m, f))

\* InMemoryBackend._apply_filters
ApplyFilters(results, f) == SelectSeq(results, LAMBDA r : PassesFilters(r.memory, f))

\* a Python slice bound: a negative one counts from the end, and both are
\* clipped to the sequence
SliceBound(n, len) ==
    IF n < 0 THEN (IF len + n < 0 THEN 0 ELSE len + n)
    ELSE IF n > len THEN len ELSE n

\* s[lo:hi]
PySlice(s, lo, hi) ==
    SubSeq(s, SliceBound(lo, Len(s)) + 1, SliceBound(hi, Len(s)))

\* the memories of a tenant that have an embedding, and no others
OfTenantEmbeddedOnly(mems, tenant) ==
    SelectSeq(mems, LAMBDA m : Key(m)[2] = tenant /\ TruthyEmbedding(m.embedding))

\* [m for (_, tenant), m in self._memories.items() if tenant == tenant_id]
OfTenant(mems, tenant) == SelectSeq(mems, LAMBDA m : Key(m)[2] = tenant)

\* a list that takes the limit for the end of the slice
InMemoryListEndAtLimit(mems, tenant, limit, offset, filters) ==
    LET ms == OfTenant(mems, tenant)
        fs == IF TruthyFilters(filters) THEN ApplyFiltersToMemories(ms, Val(filters)) ELSE ms
    IN  PySlice(fs, offset, limit)

\* InMemoryBackend.list
InMemoryList(mems, tenant, limit, offset, filters) ==
    LET ms == OfTenant(mems, tenant)
        fs == IF TruthyFilters(filters) THEN ApplyFiltersToMemories(ms, Val(filters)) ELSE ms
    IN  PySlice(fs, offset, offset + limit)

\* InMemoryBackend.count
InMemoryCount(mems, tenant, filters) ==
    LET ms == OfTenant(mems, tenant)
        fs == IF TruthyFilters(filters) THEN ApplyFiltersToMemories(ms, Val(filters)) ELSE ms
    IN  Len(fs)

RECURSIVE Dot(_, _)
Dot(v, w) ==
    IF v = <<>> \/ w = <<>> THEN 0 ELSE Head(v) * Head(w) + Dot(Tail(v), Tail(w))

\* InMemoryBackend._cosine_similarity, kept exact: the score is
\* dot / sqrt(sq1 * sq2), and 0.0 when a magnitude is zero
CosineSimilarity(vec1, vec2) ==
    [dot |-> IF Dot(vec1, vec1) = 0 \/ Dot(vec2, vec2) = 0 THEN 0 ELSE Dot(vec1, vec2),
     sq |-> IF Dot(vec1, vec1) = 0 \/ Dot(vec2, vec2) = 0 THEN 1
            ELSE Dot(vec1, vec1) * Dot(vec2, vec2)]

Sign(n) == IF n < 0 THEN 0 - 1 ELSE IF n > 0 THEN 1 ELSE 0

\* score a < score b, compared as sign(dot) * dot^2 / sq
ScoreLess(a, b) ==
    Sign(a.dot) * a.dot * a.dot * b.sq < Sign(b.dot) * b.dot * b.dot * a.sq

\* results.sort(key=lambda x: x.score, reverse=True): stable, so results
\* of equal score keep their order
RECURSIVE InsertByScore(_, _)
InsertByScore(sorted, r) ==
    IF sorted = <<>> THEN <<r>>
    ELSE IF ScoreLess(Head(sorted).score, r.score)
         THEN <<r>> \o sorted
         ELSE <<Head(sorted)>> \o InsertByScore(Tail(sorted), r)

\* a search that forgets to sort
SortNothing(results) == results

RECURSIVE SortByScore(_)
SortByScore(results) ==
    IF results = <<>> THEN <<>>
    ELSE InsertByScore(SortByScore(SubSeq(results, 1, Len(results) - 1)),
                       results[Len(results)])

\* the loop of InMemoryBackend.search: the tenant's memories that have an
\* embedding, each with its score
RECURSIVE Candidates(_, _, _)
Candidates(mems, query_embedding, tenant) ==
    IF mems = <<>> THEN <<>>
    ELSE (IF Key(Head(mems))[2] = tenant /\ TruthyEmbedding(Head(mems).embedding)
          THEN <<[memory |-> Head(mems),
                  score |-> CosineSimilarity(query_embedding, Val(Head(mems).embedding))]>>
          ELSE <<>>)
         \o Candidates(Tail(mems), query_embedding, tenant)

\* a search that ranks and truncates first and filters what is left
InMemorySearchFilterLast(mems, query_embedding, tenant, limit, filters) ==
    LET results == PySlice(SortByScore(Candidates(mems, query_embedding, tenant)), 0, limit)
    IN  IF TruthyFilters(filters) THEN ApplyFilters(results, Val(filters)) ELSE results

\* InMemoryBackend.search
InMemorySearch(mems, query_embedding, tenant, limit, filters) ==
    LET results == Candidates(mems, query_embedding, tenant)
        fs == IF TruthyFilters(filters) THEN ApplyFilters(results, Val(filters)) ELSE results
    IN  PySlice(SortByScore(fs), 0, limit)

----------------------------------------------------------------------------
(* ChromaDBBackend.  The collection is keyed by the id alone; a row holds  *)
(* the document, a flat metadata map and an embedding.                      *)

\* ",".join(tags): the tags with a "," between neighbours
RECURSIVE JoinTags(_)
JoinTags(tags) ==
    IF tags = <<>> THEN <<>>
    ELSE IF Len(tags) = 1 THEN tags
    ELSE <<Head(tags), ",">> \o JoinTags(Tail(tags))

\* joined.split(","), for a non-empty joined string
RECURSIVE SplitTags(_)
SplitTags(joined) ==
    IF joined = <<>> THEN <<>>
    ELSE IF Len(joined) = 1 THEN joined
    ELSE <<Head(joined)>> \o SplitTags(Tail(Tail(joined)))

\* str(memory.version): text, never read back as a number
StrOfInt(n) == <<"str", n>>

\* the metadata dict ChromaDBBackend.save builds
ChromaMetadata(m) ==
    [tenant_id |-> m.tenant_id,
     category |-> m.metadata.category,
     tags |-> JoinTags(m.metadata.tags),
     importance |-> m.metadata.importance,
     created_at |-> m.created_at,
     updated_at |-> m.updated_at,
     version |-> StrOfInt(m.version),
     expires_at |-> m.expires_at]

\* ChromaDBBackend.save: collection.add.  add never overwrites a row whose
\* id is already in the collection; a row added without an embedding gets
\* the one the collection's own embedding function computes of the document
ChromaSave(coll, m) ==
    IF m.id \in DOMAIN coll THEN coll
    ELSE [i \in DOMAIN coll \cup {m.id} |->
            IF i = m.id
            THEN [document |-> m.content,
                  metadata |-> ChromaMetadata(m),
                  embedding |-> IF TruthyEmbedding(m.embedding)
                                THEN Val(m.embedding)
                                ELSE Embed(m.content)]
            ELSE coll[i]]

\* ChromaDBBackend.get: the row is looked up by id, then its tenant is
\* compared; the Memory is rebuilt from document, metadata and embedding
ChromaGet(coll, id, tenant, t) ==
    IF id \notin DOMAIN coll THEN None
    ELSE IF coll[id].metadata.tenant_id # tenant THEN None
    ELSE Some(NewMemory(
            id,
            coll[id].document,
            [category |-> coll[id].metadata.category,
             tags |-> IF Truthy(coll[id].metadata.tags)
                      THEN SplitTags(coll[id].metadata.tags) ELSE <<>>,
             importance |-> coll[id].metadata.importance],
            tenant,
            Some(coll[id].embedding),
            t))

\* ChromaDBBackend.delete: collection.delete(ids=[str(memory_id)])
ChromaDelete(coll, id, tenant) ==
    [i \in DOMAIN coll \ {id} |-> coll[i]]

\* squared L2 distance, the distance of a collection created without a
\* "hnsw:space"
RECURSIVE SqDist(_, _)
SqDist(v, w) ==
    IF v = <<>> \/ w = <<>> THEN 0
    ELSE (Head(v) - Head(w)) * (Head(v) - Head(w)) + SqDist(Tail(v), Tail(w))

\* the rows collection.query selects: `where` compares the tenant and, when
\* the filters name one, the category; each row with its distance
RECURSIVE ChromaQueryRows(_, _, _, _, _)
ChromaQueryRows(coll, ids, query_embedding, tenant, filters) ==
    IF ids = <<>> THEN <<>>
    ELSE LET row == coll[Head(ids)]
             selected ==
                /\ row.metadata.tenant_id = tenant
                /\ (TruthyFilters(filters) /\ ~IsNone(Val(filters).category))
                        => row.metadata.category = Val(Val(filters).category)
         IN  (IF selected
              THEN <<[id |-> Head(ids), row |-> row,
                      score |-> [dot |-> 1 - SqDist(query_embedding, row.embedding),
                                 sq |-> 1]]>>
              ELSE <<>>)
             \o ChromaQueryRows(coll, Tail(ids), query_embedding, tenant, filters)

\* the ids of the collection, in the order the rows were added
RECURSIVE IdsInOrder(_, _)
IdsInOrder(coll, n) ==
    IF n = 0 THEN <<>>
    ELSE IdsInOrder(coll, n - 1) \o (IF n \in DOMAIN coll THEN <<n>> ELSE <<>>)

\* the tags of a row as search reads them: metadata["tags"].split(","),
\* which is [""] for a row without tags
RowTags(row) ==
    IF Truthy(row.metadata.tags) THEN SetOfSeq(SplitTags(row.metadata.tags)) ELSE {""}

\* ChromaDBBackend.search: the n_results nearest rows, then the tags
\* filter, then self.get of each row; a query for n_results <= 0 is
\* refused by the collection, which search re-raises as
\* StorageOperationError.  Rows at the same distance come in the order they
\* were added.
ChromaSearch(coll, query_embedding, tenant, limit, filters, t, top) ==
    IF limit <= 0 THEN [error |-> TRUE, results |-> <<>>]
    ELSE
      LET rows == ChromaQueryRows(coll, IdsInOrder(coll, top), query_embedding,
                                  tenant, filters)
          nearest == PySlice(SortByScore(rows), 0, limit)
          tagged == SelectSeq(nearest, LAMBDA r :
                        (TruthyFilters(filters) /\ ~IsNone(Val(filters).tags))
                            => SetOfSeq(Val(Val(filters).tags)) \subseteq RowTags(r.row))
      IN  [error |-> FALSE,
           results |-> [i \in DOMAIN tagged |->
                          [memory |-> Val(ChromaGet(coll, tagged[i].id, tenant, t)),
                           score |-> tagged[i].score]]]

\* the ids collection.get(where=...) returns: `where` compares the tenant
\* and, when the filters name one, the category; the rows come in the
\* order they were added
ChromaWhereIds(coll, tenant, filters, top) ==
    SelectSeq(IdsInOrder(coll, top), LAMBDA i :
        /\ coll[i].metadata.tenant_id = tenant
        /\ (TruthyFilters(filters) /\ ~IsNone(Val(filters).category))
                => coll[i].metadata.category = Val(Val(filters).category))

\* ChromaDBBackend.list: collection.get(where, limit=limit + offset), then
\* self.get of each id of results["ids"][offset:]; the tags of the
\* filters are not looked at.  The callers pass limit >= 0 and offset >= 0.
ChromaList(coll, tenant, limit, offset, filters, t, top) ==
    LET ids == PySlice(PySlice(ChromaWhereIds(coll, tenant, filters, top), 0, limit + offset),
                       offset, limit + offset)
    IN  [i \in DOMAIN ids |-> Val(ChromaGet(coll, ids[i], tenant, t))]

\* ChromaDBBackend.count: len(collection.get(where=where)["ids"])
ChromaCount(coll, tenant, filters, top) ==
    Len(ChromaWhereIds(coll, tenant, filters, top))

----------------------------------------------------------------------------
(* The storage the manager was constructed with (factory.create_storage_backend) *)

StorageGet(id, tenant) ==
    IF settings.backend = "memory"
    THEN InMemoryGet(memories, id, tenant)
    ELSE ChromaGet(collection, id, tenant, now)

\* storage.save(m): the next value of <<memories, embeddings, collection>>
StorageSave(m) ==
    IF settings.backend = "memory"
    THEN <<InMemorySave(memories, m), InMemorySaveEmbedding(embeddings, m), collection>>
    ELSE <<memories, embeddings, ChromaSave(collection, m)>>

\* a storage that deletes nothing
StorageDeleteNothing(id, tenant) == <<memories, embeddings, collection>>

\* storage.delete(id, tenant): the next value of <<memories, embeddings, collection>>
StorageDelete(id, tenant) ==
    IF settings.backend = "memory"
    THEN <<InMemoryDelete(memories, id, tenant),
           InMemoryDeleteEmbedding(embeddings, id, tenant), collection>>
    ELSE <<memories, embeddings, ChromaDelete(collection, id, tenant)>>

\* storage.search(query_embedding, tenant, limit, filters): whether it
\* raises, and the results
StorageSearch(query_embedding, tenant, limit, filters) ==
    IF settings.backend = "memory"
    THEN [error |-> FALSE,
          results |-> InMemorySearch(memories, query_embedding, tenant, limit, filters)]
    ELSE ChromaSearch(collection, query_embedding, tenant, limit, filters, now, next_id)

\* storage.list(tenant, limit, offset, filters)
StorageList(tenant, limit, offset, filters) ==
    IF settings.backend = "memory"
    THEN InMemoryList(memories, tenant, limit, offset, filters)
    ELSE ChromaList(collection, tenant, limit, offset, filters, now, next_id)

\* storage.count(tenant, filters)
StorageCount(tenant, filters) ==
    IF settings.backend = "memory"
    THEN InMemoryCount(memories, tenant, filters)
    ELSE ChromaCount(collection, tenant, filters, next_id)

\* how many attempts in a row a call of a collaborator can fail: the
\* embedding service and the external engine can fail, the methods of
\* InMemoryBackend cannot raise
EmbedFailures == 0..MaxAttempts

\* a storage that can fail whatever the backend
StorageFailuresAnyBackend == 0..MaxAttempts

StorageFailures == IF settings.backend = "memory" THEN {0} ELSE 0..MaxAttempts

----------------------------------------------------------------------------
(* MemoryManager *)

\* tenant_id = tenant_id or self.settings.tenant_id
ResolveTenant(tenant_arg) ==
    IF (~IsNone(tenant_arg)) /\ Val(tenant_arg) # ""
    THEN Val(tenant_arg) ELSE settings.tenant_id

\* @retry(stop=stop_after_attempt(3), reraise=True) around a callee that
\* fails `fails` times in a row: the attempts made, and whether the last
\* attempt succeeded
\* a wrapper that does not stop at the first success
AttemptsAlwaysAll(fails) == MaxAttempts

Attempts(fails) == IF fails < MaxAttempts THEN fails + 1 ELSE MaxAttempts

RetryOk(fails) == fails < MaxAttempts

\* the exception each attempt raises when it fails: the k-th is a new
\* object, told apart from the others by the attempt it belongs to
EmbedErrors == <<"EmbeddingError@1", "EmbeddingError@2", "EmbeddingError@3">>

SaveErrors ==
    <<"StorageOperationError@1", "StorageOperationError@2", "StorageOperationError@3">>

\* what the attempts of one retried call did, in order: "ok" or the
\* exception raised
RetryTrace(fails, errors) ==
    [i \in 1..Attempts(fails) |-> IF i <= fails THEN errors[i] ELSE "ok"]

\* wait_exponential: the wait after the attempt with this number failed
WaitExponential(attempt_number) ==
    Max(WaitMin, Min(WaitMultiplier * Pow(WaitBase, attempt_number - 1), WaitMax))

\* the waits of one retried call, in order: the k-th is the wait between
\* attempt k and attempt k + 1
RetryDelays(trace) == [k \in 1..(Len(trace) - 1) |-> WaitExponential(k)]

\* a wrapper that raises its own error when it gives up
ReraiseWrapped(trace) == "RetryError"

\* reraise=True: when the wrapper gives up, the exception of the last
\* attempt is raised as it is
Reraise(trace) == trace[Len(trace)]

\* MetricsCollector.record_operation
OperationMetric(operation, tenant, status) ==
    [kind |-> "operation", operation |-> operation, tenant_id |-> tenant, status |-> status]

\* MetricsCollector.record_embedding
EmbeddingMetric(status) ==
    [kind |-> "embedding", operation |-> "embed", tenant_id |-> "", status |-> status]

\* an event that carries the configured tenant, whatever the tenant of
\* the call
MemoryEventDefaultTenant(event_type, tenant, id, previous_version) ==
    [event_type |-> event_type, tenant_id |-> settings.tenant_id, memory_id |-> id,
     previous_version |-> previous_version]

\* MemoryCreatedEvent, MemoryUpdatedEvent, MemoryDeletedEvent
MemoryEvent(event_type, tenant, id, previous_version) ==
    [event_type |-> event_type, tenant_id |-> tenant, memory_id |-> id,
     previous_version |-> previous_version]

\* what the latest call did, as its caller and its collaborators saw it:
\* the error raised ("ok" when none), the memory found before the call and
\* the one returned, what each call made to the embedding service and to
\* storage.save / storage.delete / storage.search did, the events published,
\* the metrics recorded
Outcome(op, status, id, tenant, content, pre, ret, embed_attempts, storage_attempts, events, metrics) ==
    [op |-> op, status |-> status, id |-> id, tenant |-> tenant,
     content |-> content, pre |-> pre, ret |-> ret,
     embed_attempts |-> embed_attempts, storage_attempts |-> storage_attempts,
     embed_calls |-> Len(embed_attempts), storage_calls |-> Len(storage_attempts),
     events |-> events, metrics |-> metrics]

\* what the attempts of _generate_embedding_with_retry do when the metrics
\* recorder raises: record_embedding is called inside the retried function,
\* so an attempt whose embed succeeded fails all the same, with the
\* recorder's error, and every attempt is made
FaultyEmbedTrace(efail) ==
    [i \in 1..MaxAttempts |-> IF i <= efail THEN EmbedErrors[i] ELSE "MetricsError"]

\* The outcome of a call after its last words to the collaborators.  The
\* metrics recorder is called inside the try blocks and again in their
\* except blocks: when it raises, its error leaves the call, whatever the
\* work did.  event_bus.publish is called after the work, outside a try
\* block: when it raises, its error leaves the call.
Told(o) ==
    IF faults.metrics /\ o.metrics # <<>>
    THEN [o EXCEPT !.status = "MetricsError", !.ret = None, !.events = <<>>,
                   !.metrics = <<>>]
    ELSE IF faults.event_bus /\ o.events # <<>>
    THEN [o EXCEPT !.status = "EventBusError", !.ret = None]
    ELSE o

\* the metrics one call of _generate_embedding_with_retry leaves behind
\* when its caller catches the failure
EmbedMetrics(efail) ==
    <<EmbeddingMetric(IF RetryOk(efail) THEN "success" ELSE "error")>>

\* a check of the content that lets blank text through
SaveRejectsEmptyOnly(content) == ~Truthy(content)

\* save: if not content or not content.strip()
SaveRejects(content) == ~Truthy(content) \/ ~Truthy(Strip(content))

\* MemoryManager.save
Save(content, metadata, tenant_arg, generate_embedding, ttl_days, efail, sfail) ==
    LET tenant == ResolveTenant(tenant_arg) IN
    IF SaveRejects(content)
    THEN \* raise InvalidMemoryError
         /\ last' = Outcome("save", "InvalidMemoryError", 0, tenant, Some(content),
                            None, None, <<>>, <<>>, <<>>, <<>>)
         /\ UNCHANGED <<settings, rest, memories, embeddings, collection, next_id, now>>
    ELSE IF generate_embedding /\ faults.metrics
    THEN \* no attempt to embed gets past record_embedding("success"), and
         \* record_embedding("error") in the except block raises: the
         \* memory is never handed to the storage
         /\ now < MaxTime
         /\ now' = now + 1
         /\ next_id' = next_id + 1
         /\ last' = Outcome("save", "MetricsError", next_id, tenant, Some(content),
                            None, None, FaultyEmbedTrace(efail), <<>>, <<>>, <<>>)
         /\ UNCHANGED <<settings, rest, memories, embeddings, collection>>
    ELSE
      LET m0 == NewMemory(next_id, Strip(content),
                          IF IsNone(metadata) THEN DefaultMetadata ELSE Val(metadata),
                          tenant, None, now)
          m1 == IF (~IsNone(ttl_days)) /\ Val(ttl_days) # 0
                THEN set_ttl(m0, Val(ttl_days), now)
                ELSE IF (~IsNone(settings.default_ttl_days))
                        /\ Val(settings.default_ttl_days) # 0
                     THEN set_ttl(m0, Val(settings.default_ttl_days), now)
                     ELSE m0
          memory == IF generate_embedding /\ RetryOk(efail)
                    THEN [m1 EXCEPT !.embedding = Some(Embed(content))]
                    ELSE m1
          embed_calls == IF generate_embedding THEN RetryTrace(efail, EmbedErrors) ELSE <<>>
          embed_metrics == IF generate_embedding THEN EmbedMetrics(efail) ELSE <<>>
          save_calls == RetryTrace(sfail, SaveErrors)
          stored == StorageSave(memory)
      IN  /\ now < MaxTime
          /\ now' = now + 1
          /\ next_id' = next_id + 1
          /\ IF RetryOk(sfail)
             THEN /\ memories' = stored[1]
                  /\ embeddings' = stored[2]
                  /\ collection' = stored[3]
                  /\ last' = Told(Outcome("save", "ok", memory.id, tenant, Some(content),
                                     None, Some(memory), embed_calls, save_calls,
                                     <<MemoryEvent("memory.created", memory.tenant_id,
                                                   memory.id, 0)>>,
                                     embed_metrics
                                       \o <<OperationMetric("save", tenant, "success")>>))
             ELSE \* the last attempt's error is re-raised
                  /\ last' = Told(Outcome("save", Reraise(save_calls), memory.id, tenant,
                                     Some(content), None, None, embed_calls,
                                     save_calls, <<>>,
                                     embed_metrics
                                       \o <<OperationMetric("save", tenant, "error")>>))
                  /\ UNCHANGED <<memories, embeddings, collection>>
          /\ UNCHANGED <<settings, rest>>

\* MemoryManager.get; gfail: storage.get raises
Get(id, tenant_arg, gfail) ==
    LET tenant == ResolveTenant(tenant_arg)
        memory == StorageGet(id, tenant)
    IN  /\ last' = Told(
                   IF gfail
                   THEN Outcome("get", "StorageOperationError", id, tenant, None, None, None,
                                <<>>, <<>>, <<>>, <<OperationMetric("get", tenant, "error")>>)
                   ELSE Outcome("get", "ok", id, tenant, None, memory, memory, <<>>, <<>>, <<>>,
                                <<OperationMetric("get", tenant,
                                      IF IsNone(memory) THEN "not_found" ELSE "success")>>))
        /\ UNCHANGED <<settings, rest, memories, embeddings, collection, next_id, now>>

\* an update that checks nothing
UpdateRejectsNothing(content) == FALSE

\* update: if content: if not content.strip(): raise
UpdateRejects(content) == TruthyOpt(content) /\ ~Truthy(Strip(Val(content)))

\* a manager that ignores the configuration switch
VersioningAlways == TRUE

\* update: if self.settings.enable_versioning
VersioningOn == settings.enable_versioning

\* MemoryManager.update.  With InMemoryBackend the Memory that get returns
\* is the stored object itself, so the assignments below change the store
\* as they are made; storage.save then stores the same object again.
Update(id, content, metadata, tenant_arg, efail, sfail, gfail) ==
    LET tenant == ResolveTenant(tenant_arg)
        found == StorageGet(id, tenant)
        get_metric == <<OperationMetric("get", tenant,
                            IF IsNone(found) THEN "not_found" ELSE "success")>>
    IN
    IF gfail
    THEN \* self.get re-raises the storage error
         /\ last' = Told(Outcome("update", "StorageOperationError", id, tenant, content,
                                 None, None, <<>>, <<>>, <<>>,
                                 <<OperationMetric("get", tenant, "error")>>))
         /\ UNCHANGED <<settings, rest, memories, embeddings, collection, next_id, now>>
    ELSE IF faults.metrics
    THEN \* self.get raises the error of the metrics recorder
         /\ last' = Told(Outcome("update", "ok", id, tenant, content, found, None,
                                 <<>>, <<>>, <<>>, get_metric))
         /\ UNCHANGED <<settings, rest, memories, embeddings, collection, next_id, now>>
    ELSE IF IsNone(found)
    THEN \* raise InvalidMemoryError(field="id")
         /\ last' = Outcome("update", "InvalidMemoryError", id, tenant, content, None,
                            None, <<>>, <<>>, <<>>, get_metric)
         /\ UNCHANGED <<settings, rest, memories, embeddings, collection, next_id, now>>
    ELSE IF UpdateRejects(content)
    THEN \* raise InvalidMemoryError(field="content")
         /\ last' = Outcome("update", "InvalidMemoryError", id, tenant, content, found,
                            None, <<>>, <<>>, <<>>, get_metric)
         /\ UNCHANGED <<settings, rest, memories, embeddings, collection, next_id, now>>
    ELSE
      LET memory == Val(found)
          previous_version == memory.version
          m1 == IF TruthyOpt(content)
                THEN [memory EXCEPT
                        !.content = Strip(Val(content)),
                        !.embedding = IF RetryOk(efail)
                                      THEN Some(Embed(Val(content))) ELSE @]
                ELSE memory
          m2 == IF ~IsNone(metadata) THEN [m1 EXCEPT !.metadata = Val(metadata)] ELSE m1
          changed_fields ==
              (IF TruthyOpt(content) THEN <<"content">> ELSE <<>>)
              \o (IF ~IsNone(metadata) THEN <<"metadata">> ELSE <<>>)
          m3 == IF VersioningOn
                THEN create_version(m2, changed_fields, now) ELSE m2
          embed_calls == IF TruthyOpt(content) THEN RetryTrace(efail, EmbedErrors) ELSE <<>>
          embed_metrics == IF TruthyOpt(content) /\ RetryOk(efail)
                           THEN EmbedMetrics(efail) ELSE <<>>
          save_calls == RetryTrace(sfail, SaveErrors)
          stored == StorageSave(m3)
      IN  /\ now < MaxTime
          /\ now' = now + 1
          /\ IF RetryOk(sfail)
             THEN /\ memories' = stored[1]
                  /\ embeddings' = stored[2]
                  /\ collection' = stored[3]
                  /\ last' = Told(Outcome("update", "ok", id, tenant, content, found,
                                     Some(m3), embed_calls, save_calls,
                                     <<MemoryEvent("memory.updated", m3.tenant_id, m3.id,
                                                   previous_version)>>,
                                     get_metric \o embed_metrics
                                       \o <<OperationMetric("update", tenant, "success")>>))
             ELSE \* storage.save did not store the object; what was
                  \* assigned to a stored object stays assigned
                  /\ last' = Outcome("update", Reraise(save_calls), id, tenant, content,
                                     found, None, embed_calls, save_calls, <<>>,
                                     get_metric \o embed_metrics
                                       \o <<OperationMetric("update", tenant, "error")>>)
                  /\ memories' = IF settings.backend = "memory"
                                 THEN InMemorySave(memories, m3) ELSE memories
                  /\ UNCHANGED <<embeddings, collection>>
          /\ UNCHANGED <<settings, rest, next_id>>

\* MemoryManager.delete; dfail: storage.delete raises
Delete(id, tenant_arg, dfail) ==
    LET tenant == ResolveTenant(tenant_arg)
        found == StorageGet(id, tenant)
        stored == StorageDelete(id, tenant)
    IN  /\ IF dfail
           THEN /\ last' = Told(Outcome("delete", "StorageOperationError", id, tenant, None,
                                   found, None, <<>>, <<"StorageOperationError">>, <<>>,
                                   <<OperationMetric("delete", tenant, "error")>>))
                /\ UNCHANGED <<memories, embeddings, collection>>
           ELSE /\ memories' = stored[1]
                /\ embeddings' = stored[2]
                /\ collection' = stored[3]
                /\ last' = Told(Outcome("delete", "ok", id, tenant, None, found, None,
                                   <<>>, <<"ok">>,
                                   <<MemoryEvent("memory.deleted", tenant, id, 0)>>,
                                   <<OperationMetric("delete", tenant, "success")>>))
        /\ UNCHANGED <<settings, rest, next_id, now>>

\* MemorySearchedEvent
MemorySearchedEvent(query, result_count, tenant) ==
    [event_type |-> "memory.searched", tenant_id |-> tenant, query |-> query,
     result_count |-> result_count]

\* MetricsCollector.record_search
SearchMetric(tenant) ==
    [kind |-> "search", operation |-> "search", tenant_id |-> tenant, status |-> ""]

\* a check of the query that lets blank text through
SearchRejectsEmptyOnly(query) == ~Truthy(query)

\* search: if not query or not query.strip()
SearchRejects(query) == ~Truthy(query) \/ ~Truthy(Strip(query))

\* a search that goes on without a query vector when none could be made
SearchAbortsNever(embed_calls) == FALSE

\* search: _generate_embedding_with_retry raises inside the try block
SearchAborts(embed_calls) == Reraise(embed_calls) # "ok"

\* MemoryManager.search
Search(query, tenant_arg, limit, filters, efail) ==
    LET tenant == ResolveTenant(tenant_arg) IN
    /\ IF SearchRejects(query)
       THEN \* raise InvalidQueryError
            last' = Outcome("search", "InvalidQueryError", 0, tenant, Some(query),
                            None, None, <<>>, <<>>, <<>>, <<>>)
       ELSE
         LET embed_calls == IF faults.metrics THEN FaultyEmbedTrace(efail)
                            ELSE RetryTrace(efail, EmbedErrors)
             query_embedding == IF RetryOk(efail) THEN Embed(query) ELSE <<>>
             found == StorageSearch(query_embedding, tenant, limit, filters)
         IN  IF SearchAborts(embed_calls)
             THEN \* the except block records the error and re-raises it
                  last' = Told(Outcome("search", Reraise(embed_calls), 0, tenant,
                                  Some(query), None, None, embed_calls, <<>>, <<>>,
                                  <<OperationMetric("search", tenant, "error")>>))
             ELSE IF found.error
             THEN last' = Outcome("search", "StorageOperationError", 0, tenant,
                                  Some(query), None, None, embed_calls,
                                  <<"StorageOperationError">>, <<>>,
                                  <<EmbeddingMetric("success"),
                                    OperationMetric("search", tenant, "error")>>)
             ELSE \* publish is called inside the try block: when it raises,
                  \* the except block records the error of the search
                  last' = Told(Outcome("search", "ok", 0, tenant, Some(query), None,
                                  Some(found.results), embed_calls, <<"ok">>,
                                  <<MemorySearchedEvent(query, Len(found.results), tenant)>>,
                                  <<EmbeddingMetric("success"),
                                    OperationMetric("search", tenant, "success"),
                                    SearchMetric(tenant)>>
                                  \o (IF faults.event_bus
                                      THEN <<OperationMetric("search", tenant, "error")>>
                                      ELSE <<>>)))
    /\ UNCHANGED <<settings, rest, memories, embeddings, collection, next_id, now>>

\* MemoryManager.list; lfail: storage.list raises
List(tenant_arg, limit, offset, filters, lfail) ==
    LET tenant == ResolveTenant(tenant_arg) IN
    /\ last' = IF lfail
               THEN Outcome("list", "StorageOperationError", 0, tenant, None, None, None,
                            <<>>, <<"StorageOperationError">>, <<>>, <<>>)
               ELSE Outcome("list", "ok", 0, tenant, None, None,
                            Some(StorageList(tenant, limit, offset, filters)),
                            <<>>, <<"ok">>, <<>>, <<>>)
    /\ UNCHANGED <<settings, rest, memories, embeddings, collection, next_id, now>>

\* MemoryManager.count; cfail: storage.count raises
Count(tenant_arg, filters, cfail) ==
    LET tenant == ResolveTenant(tenant_arg) IN
    /\ last' = IF cfail
               THEN Outcome("count", "StorageOperationError", 0, tenant, None, None, None,
                            <<>>, <<"StorageOperationError">>, <<>>, <<>>)
               ELSE Outcome("count", "ok", 0, tenant, None, None,
                            Some(StorageCount(tenant, filters)),
                            <<>>, <<"ok">>, <<>>, <<>>)
    /\ UNCHANGED <<settings, rest, memories, embeddings, collection, next_id, now>>

\* A caller of the storage contract saves a Memory it constructed itself,
\* Memory(id=id, content=content, tenant_id=tenant), under an id that is
\* already in use: storage.save(memory)
BackendSave(id, content, tenant) ==
    LET memory == NewMemory(id, content, DefaultMetadata, tenant, None, now)
        stored == StorageSave(memory)
    IN  /\ id < next_id
        /\ ContentValid(content)
        /\ now < MaxTime
        /\ now' = now + 1
        /\ memories' = stored[1]
        /\ embeddings' = stored[2]
        /\ collection' = stored[3]
        /\ last' = Outcome("backend.save", "ok", id, tenant, Some(content),
                           StorageGet(id, tenant), Some(memory), <<>>, <<"ok">>, <<>>, <<>>)
        /\ UNCHANGED <<settings, rest, next_id>>

\* no call is in progress and no outcome is waiting for the caller
Idle == Outcome("idle", "ok", 0, "", None, None, None, <<>>, <<>>, <<>>, <<>>)

\* the caller takes the outcome of its call; the calls of a run are
\* sequential, the next one starts after this
Return ==
    /\ last # Idle
    /\ last' = Idle
    /\ UNCHANGED <<settings, rest, memories, embeddings, collection, next_id, now>>

----------------------------------------------------------------------------
(* The calls the callers make *)

\* save: every accepted content under every tenant with and without an
\* embedding, the rejected contents, and one call that passes metadata and
\* a time to live
SaveCalls ==
    {[content |-> c, metadata |-> None, tenant_id |-> t,
      generate_embedding |-> g, ttl_days |-> None] :
        c \in GoodTexts, t \in TenantArgs, g \in BOOLEAN}
    \cup {[content |-> c, metadata |-> None, tenant_id |-> None,
           generate_embedding |-> TRUE, ttl_days |-> None] : c \in BlankTexts}
    \cup {[content |-> <<"a">>, metadata |-> Some(WorkMetadata), tenant_id |-> None,
           generate_embedding |-> FALSE, ttl_days |-> Some(1)]}

\* update: no content, rejected content, accepted content; with and
\* without metadata
UpdateCalls ==
    [id : Ids,
     content : {None} \cup {Some(c) : c \in BlankTexts \cup GoodTexts},
     metadata : MetadataArgs,
     tenant_id : TenantArgs]

\* search: the rejected queries, a query under each tenant, and one call
\* that passes filters and a limit the backends treat differently
SearchCalls ==
    {[query |-> q, tenant_id |-> None, limit |-> 10, filters |-> None] : q \in BlankTexts}
    \cup {[query |-> <<"a">>, tenant_id |-> t, limit |-> 1, filters |-> None] :
            t \in TenantArgs}
    \cup {[query |-> <<" ", "b", " ">>, tenant_id |-> None, limit |-> 0,
           filters |-> Some([category |-> Some("work"), tags |-> Some(<<"db">>)])]}

StorageMayFail == settings.backend # "memory"

\* MemoryManager(storage, embedding, settings, event_bus, metrics) with
\* collaborators that do not raise
NoFaults == [metrics |-> FALSE, event_bus |-> FALSE]

\* SimpleEventBus.__init__: self._handlers = {}
NoHandlers == [t \in {} |-> <<>>]

\* no call is suspended at an await
NoPending == [update |-> None, delete |-> None, events |-> <<>>]

\* the tasks that call the manager at the same time
Tasks == {1, 2}

\* no task has called the manager: no call is in flight, no Memory object
\* is held by a call after it left the storage, no update has finished
NoCalls == [task |-> [t \in Tasks |-> None], detached |-> <<>>, done |-> 0]

\* a manager constructed with one of the given settings and collaborators
\* that behave in one of the given ways, over an empty storage
InitFrom(configs, collaborators) ==
    /\ settings \in configs
    /\ faults \in collaborators
    /\ memories = <<>>
    /\ embeddings = <<>>
    /\ collection = <<>>
    /\ next_id = 1
    /\ now = 0
    /\ last = Idle
    /\ handlers = NoHandlers
    /\ closed = FALSE
    /\ pending = NoPending
    /\ inflight = NoCalls

InitWith(backend) ==
    InitFrom([tenant_id : {"A"},
              enable_versioning : BOOLEAN,
              default_ttl_days : {None},
              backend : {backend}], {NoFaults})

\* a manager over InMemoryBackend
Init == InitWith("memory")

\* a manager over ChromaDBBackend
InitChroma == InitWith("chromadb")

\* The calls of a run are sequential.  Arguments that a call does not get
\* to read are not varied.
SaveCall ==
    \E call \in SaveCalls, efail \in EmbedFailures, sfail \in StorageFailures :
        /\ last = Idle
        /\ (~(call.generate_embedding /\ ContentValid(call.content)) => efail = 0)
        /\ (~ContentValid(call.content) => sfail = 0)
        /\ Save(call.content, call.metadata, call.tenant_id,
                call.generate_embedding, call.ttl_days, efail, sfail)

GetCall ==
    \E id \in Ids, tenant_arg \in TenantArgs, gfail \in BOOLEAN :
        /\ last = Idle
        /\ (gfail => StorageMayFail)
        /\ Get(id, tenant_arg, gfail)

UpdateCall ==
    \E call \in UpdateCalls, efail \in EmbedFailures, sfail \in StorageFailures,
       gfail \in BOOLEAN :
        /\ last = Idle
        /\ (gfail => StorageMayFail /\ efail = 0 /\ sfail = 0)
        /\ (gfail \/ IsNone(StorageGet(call.id, ResolveTenant(call.tenant_id)))
                => call.content = None /\ call.metadata = None /\ sfail = 0)
        /\ (~(TruthyOpt(call.content) /\ ContentValid(Val(call.content))) => efail = 0)
        /\ (TruthyOpt(call.content) /\ ~ContentValid(Val(call.content))
                => call.metadata = None /\ sfail = 0)
        /\ Update(call.id, call.content, call.metadata, call.tenant_id,
                  efail, sfail, gfail)

DeleteCall ==
    \E id \in Ids, tenant_arg \in TenantArgs, dfail \in BOOLEAN :
        /\ last = Idle
        /\ (dfail => StorageMayFail)
        /\ Delete(id, tenant_arg, dfail)

SearchCall ==
    \E call \in SearchCalls, efail \in {0, MaxAttempts} :
        /\ last = Idle
        /\ (~(Truthy(call.query) /\ Truthy(Strip(call.query))) => efail = 0)
        /\ Search(call.query, call.tenant_id, call.limit, call.filters, efail)

\* list and count are called with the default limit, offset and filters
ListCall ==
    \E tenant_arg \in TenantArgs, lfail \in BOOLEAN :
        /\ last = Idle
        /\ (lfail => StorageMayFail)
        /\ List(tenant_arg, 100, 0, None, lfail)

CountCall ==
    \E tenant_arg \in TenantArgs, cfail \in BOOLEAN :
        /\ last = Idle
        /\ (cfail => StorageMayFail)
        /\ Count(tenant_arg, None, cfail)

BackendSaveCall ==
    \E id \in Ids, tenant \in Tenants :
        /\ last = Idle
        /\ BackendSave(id, <<"b">>, tenant)

Next ==
    \/ SaveCall
    \/ GetCall
    \/ UpdateCall
    \/ DeleteCall
    \/ SearchCall
    \/ ListCall
    \/ CountCall
    \/ BackendSaveCall
    \/ Return

Spec == Init /\ [][Next]_vars

SpecChroma == InitChroma /\ [][Next]_vars

\* a manager over either backend, whose callers save, update and get
InitEither == Init \/ InitChroma

NextUpdate ==
    \/ SaveCall
    \/ GetCall
    \/ UpdateCall
    \/ Return

SpecUpdate == InitEither /\ [][NextUpdate]_vars

\* a manager over InMemoryBackend whose configured tenant may be the
\* empty string: Settings.tenant_id is a str without a constraint
InitTenant ==
    InitFrom([tenant_id : {"A", ""},
              enable_versioning : {TRUE},
              default_ttl_days : {None},
              backend : {"memory"}], {NoFaults})

\* save is called with the empty string for a tenant
SaveEmptyTenantCall ==
    \E content \in GoodTexts :
        /\ last = Idle
        /\ Save(content, None, Some(""), FALSE, None, 0, 0)

NextTenant ==
    \/ Next
    \/ SaveEmptyTenantCall

SpecTenant == InitTenant /\ [][NextTenant]_vars

----------------------------------------------------------------------------
(* Retry policies: a manager over ChromaDBBackend whose settings carry a   *)
(* RetryConfig, the default one or one with fewer attempts, a longer first *)
(* delay and another base, or a lower maximum delay.                       *)

\* RetryConfig(): the field defaults
DefaultRetry ==
    [max_attempts |-> 3, initial_delay |-> 1, max_delay |-> 60, exponential_base |-> 2]

RetryConfigs ==
    {DefaultRetry,
     [DefaultRetry EXCEPT !.max_attempts = 2],
     [DefaultRetry EXCEPT !.initial_delay = 2, !.exponential_base = 3],
     [DefaultRetry EXCEPT !.max_delay = 1]}

InitRetry ==
    InitFrom([tenant_id : {"A"},
              enable_versioning : {TRUE},
              default_ttl_days : {None},
              backend : {"chromadb"},
              retry : RetryConfigs], {NoFaults})

NextRetry ==
    \/ SaveCall
    \/ SearchCall
    \/ Return

SpecRetry == InitRetry /\ [][NextRetry]_vars

----------------------------------------------------------------------------
(* Times to live: a manager configured with or without a default time to   *)
(* live, callers that save with and without ttl_days and ask the memories  *)
(* they hold whether they have expired, while time passes.                 *)

\* the ttl_days the callers pass: absent, negative, zero, positive
TtlArgs == {None, Some(0 - 1), Some(0), Some(1)}

InitTtl ==
    InitFrom([tenant_id : {"A"},
              enable_versioning : {TRUE},
              default_ttl_days : {None, Some(2)},
              backend : {"memory"}], {NoFaults})

SaveTtlCall ==
    \E ttl_days \in TtlArgs :
        /\ last = Idle
        /\ Save(<<"a">>, None, None, FALSE, ttl_days, 0, 0)

\* memory.is_expired() on a Memory the caller holds: the answer, and the
\* memory as it is after the call
IsExpired(m) ==
    /\ last' = Outcome("is_expired", "ok", m.id, m.tenant_id, None, Some(m),
                       Some([expired |-> is_expired(m, now), memory |-> m]),
                       <<>>, <<>>, <<>>, <<>>)
    /\ UNCHANGED <<settings, rest, memories, embeddings, collection, next_id, now>>

IsExpiredCall ==
    \E i \in DOMAIN memories :
        /\ last = Idle
        /\ IsExpired(memories[i])

\* time passes between two calls
Tick ==
    /\ last = Idle
    /\ now < MaxTime
    /\ now' = now + 1
    /\ UNCHANGED <<settings, rest, memories, embeddings, collection, next_id, last>>

NextTtl ==
    \/ SaveTtlCall
    \/ IsExpiredCall
    \/ GetCall
    \/ Tick
    \/ Return

SpecTtl == InitTtl /\ [][NextTtl]_vars

----------------------------------------------------------------------------
(* Collaborators that raise: the manager is constructed with a metrics     *)
(* recorder whose record_* methods raise, with an event bus whose publish  *)
(* raises, or with both.                                                   *)

Faulty == [metrics : BOOLEAN, event_bus : BOOLEAN] \ {NoFaults}

InitFaulty ==
    InitFrom([tenant_id : {"A"},
              enable_versioning : {TRUE},
              default_ttl_days : {None},
              backend : {"memory"}], Faulty)

SpecFaulty == InitFaulty /\ [][Next]_vars

----------------------------------------------------------------------------
(* An update and a delete that run at the same time.  A call may be        *)
(* suspended wherever it awaits the storage or the embedding service, and  *)
(* the other call runs meanwhile: update between its start and             *)
(* storage.get, and between storage.get and storage.save (where it awaits  *)
(* the embedding); delete between its start and storage.delete.            *)

\* one step of a call, with the key it works on, the content an update
\* was called with, and whether the key is stored after the step
RaceEvent(call, what, key, content, stored) ==
    [call |-> call, what |-> what, key |-> key, content |-> content, stored |-> stored]

\* the steps of the calls that run together: a call that starts while no
\* call is suspended starts a new record
Events ==
    IF IsNone(pending.update) /\ IsNone(pending.delete) THEN <<>> ELSE pending.events

Began(call) == \E i \in DOMAIN Events : Events[i].call = call /\ Events[i].what = "begin"

IsStored(id, tenant) == ~IsNone(StorageGet(id, tenant))

\* update is called: tenant_id = tenant_id or self.settings.tenant_id, and
\* the call awaits self.get
UpdateBegin(id, content, tenant_arg) ==
    LET tenant == ResolveTenant(tenant_arg) IN
    /\ IsNone(pending.update)
    /\ ~Began("update")
    /\ now < MaxTime
    /\ pending' = [pending EXCEPT
            !.update = Some([pc |-> "get", id |-> id, tenant |-> tenant,
                             content |-> content, found |-> None, memory |-> None]),
            !.events = Append(Events, RaceEvent("update", "begin", <<id, tenant>>,
                                                content, IsStored(id, tenant)))]
    /\ UNCHANGED <<settings, memories, embeddings, collection, next_id, now, last,
                   inflight, faults, handlers, closed>>

\* update goes on from self.get to the await of the embedding: a memory
\* that is not found ends the call with InvalidMemoryError; one that is
\* found gets its new content at once, in the stored object itself
UpdateLoad ==
    LET u == Val(pending.update)
        found == StorageGet(u.id, u.tenant)
        i == IndexOf(memories, u.id, u.tenant)
        get_metric == <<OperationMetric("get", u.tenant,
                            IF IsNone(found) THEN "not_found" ELSE "success")>>
    IN  /\ ~IsNone(pending.update)
        /\ u.pc = "get"
        /\ IF IsNone(found)
           THEN /\ last' = Told(Outcome("update", "InvalidMemoryError", u.id, u.tenant,
                                        Some(u.content), None, None, <<>>, <<>>, <<>>,
                                        get_metric))
                /\ pending' = [pending EXCEPT
                        !.update = None,
                        !.events = Append(@, RaceEvent("update", "not_found",
                                                       <<u.id, u.tenant>>, u.content, FALSE))]
                /\ UNCHANGED memories
           ELSE /\ memories' = [memories EXCEPT ![i].content = Strip(u.content)]
                /\ pending' = [pending EXCEPT
                        !.update = Some([u EXCEPT
                            !.pc = "save",
                            !.found = found,
                            !.memory = Some([Val(found) EXCEPT
                                                !.content = Strip(u.content)])]),
                        !.events = Append(@, RaceEvent("update", "get",
                                                       <<u.id, u.tenant>>, u.content, TRUE))]
                /\ UNCHANGED last
        /\ UNCHANGED <<settings, embeddings, collection, next_id, now, inflight, faults, handlers,
                       closed>>

\* update goes on from the embedding to its end: the embedding, the
\* version, storage.save of the object it holds, the metric and the event
UpdateStore(efail) ==
    LET u == Val(pending.update)
        memory == Val(u.memory)
        m1 == [memory EXCEPT !.embedding = IF RetryOk(efail)
                                           THEN Some(Embed(u.content)) ELSE @]
        m3 == IF VersioningOn THEN create_version(m1, <<"content">>, now) ELSE m1
        stored == StorageSave(m3)
    IN  /\ ~IsNone(pending.update)
        /\ u.pc = "save"
        /\ now < MaxTime
        /\ now' = now + 1
        /\ memories' = stored[1]
        /\ embeddings' = stored[2]
        /\ collection' = stored[3]
        /\ last' = Told(Outcome("update", "ok", u.id, u.tenant, Some(u.content), u.found,
                                Some(m3), RetryTrace(efail, EmbedErrors), <<"ok">>,
                                <<MemoryEvent("memory.updated", m3.tenant_id, m3.id,
                                              Val(u.found).version)>>,
                                <<OperationMetric("get", u.tenant, "success")>>
                                  \o (IF RetryOk(efail) THEN EmbedMetrics(efail) ELSE <<>>)
                                  \o <<OperationMetric("update", u.tenant, "success")>>))
        /\ pending' = [pending EXCEPT
                !.update = None,
                !.events = Append(@, RaceEvent("update", "save", <<u.id, u.tenant>>,
                                               u.content, TRUE))]
        /\ UNCHANGED <<settings, next_id, inflight, faults, handlers, closed>>

\* delete is called: the tenant is resolved, and the call awaits
\* storage.delete
DeleteBegin(id, tenant_arg) ==
    LET tenant == ResolveTenant(tenant_arg) IN
    /\ IsNone(pending.delete)
    /\ ~Began("delete")
    /\ pending' = [pending EXCEPT
            !.delete = Some([id |-> id, tenant |-> tenant]),
            !.events = Append(Events, RaceEvent("delete", "begin", <<id, tenant>>,
                                                <<>>, IsStored(id, tenant)))]
    /\ UNCHANGED <<settings, memories, embeddings, collection, next_id, now, last,
                   inflight, faults, handlers, closed>>

\* delete goes on to its end: storage.delete, the metric and the event
DeleteRemove ==
    LET d == Val(pending.delete)
        found == StorageGet(d.id, d.tenant)
        stored == StorageDelete(d.id, d.tenant)
    IN  /\ ~IsNone(pending.delete)
        /\ memories' = stored[1]
        /\ embeddings' = stored[2]
        /\ collection' = stored[3]
        /\ last' = Told(Outcome("delete", "ok", d.id, d.tenant, None, found, None,
                                <<>>, <<"ok">>,
                                <<MemoryEvent("memory.deleted", d.tenant, d.id, 0)>>,
                                <<OperationMetric("delete", d.tenant, "success")>>))
        /\ pending' = [pending EXCEPT
                !.delete = None,
                !.events = Append(@, RaceEvent("delete", "remove", <<d.id, d.tenant>>,
                                               <<>>, FALSE))]
        /\ UNCHANGED <<settings, next_id, now, inflight, faults, handlers, closed>>

\* the memories are saved while no update and no delete is running
RaceSaveCall ==
    \E tenant_arg \in TenantArgs :
        /\ last = Idle
        /\ IsNone(pending.update)
        /\ IsNone(pending.delete)
        /\ Save(<<"a">>, None, tenant_arg, FALSE, None, 0, 0)

UpdateBeginCall ==
    \E id \in Ids, content \in GoodTexts, tenant_arg \in TenantArgs :
        /\ last = Idle
        /\ UpdateBegin(id, content, tenant_arg)

UpdateLoadStep ==
    /\ last = Idle
    /\ UpdateLoad

UpdateStoreStep ==
    \E efail \in {0, MaxAttempts} :
        /\ last = Idle
        /\ UpdateStore(efail)

DeleteBeginCall ==
    \E id \in Ids, tenant_arg \in TenantArgs :
        /\ last = Idle
        /\ DeleteBegin(id, tenant_arg)

DeleteRemoveStep ==
    /\ last = Idle
    /\ DeleteRemove

NextRace ==
    \/ RaceSaveCall
    \/ UpdateBeginCall
    \/ UpdateLoadStep
    \/ UpdateStoreStep
    \/ DeleteBeginCall
    \/ DeleteRemoveStep
    \/ Return

InitRace ==
    InitFrom([tenant_id : {"A"},
              enable_versioning : {TRUE},
              default_ttl_days : {None},
              backend : {"memory"}], {NoFaults})

SpecRace == InitRace /\ [][NextRace]_vars


----------------------------------------------------------------------------
(* Calls that run as concurrent tasks over InMemoryBackend with an         *)
(* embedding service that does not fail.  A call may be suspended wherever *)
(* it awaits a collaborator: update between its start and storage.get, and *)
(* between storage.get and storage.save (where it awaits the embedding);   *)
(* delete between its start and storage.delete.  InMemoryBackend.get       *)
(* returns the stored Memory object itself, so two updates of one id hold  *)
(* the same object and each sees what the other assigns to it.             *)

\* the contents the concurrent updates pass
TaskTexts == {<<"b">>, <<"a", "b">>}

Busy(t) == ~IsNone(inflight.task[t])

TaskCall(t) == Val(inflight.task[t])

\* the Memory object with this id that the updates in flight hold: the
\* stored one, or the one a delete has taken out of the storage meanwhile
HeldObject(id) ==
    LET i == IndexOf(memories, id, settings.tenant_id)
    IN  IF i # 0 THEN memories[i] ELSE inflight.detached[id]

\* task t works on the id: the calls of the other tasks on the same id no
\* longer run as they would have run alone
Disturb(task_map, t, id) ==
    [o \in Tasks |->
        IF o # t /\ ~IsNone(task_map[o]) /\ Val(task_map[o]).id = id
        THEN Some([Val(task_map[o]) EXCEPT !.alone = FALSE])
        ELSE task_map[o]]

\* a task calls update(id, content) or delete(id): the tenant is resolved
\* and the call awaits self.get or storage.delete
TaskBegin(t, op, id, content) ==
    LET tenant == ResolveTenant(None)
        updates == {o \in Tasks : Busy(o) /\ TaskCall(o).op = "update"}
        overlap == \E o \in Tasks : Busy(o) /\ TaskCall(o).id = id
        call == [op |-> op, pc |-> "begin", id |-> id, tenant |-> tenant,
                 content |-> content, before |-> StorageGet(id, tenant),
                 found |-> None, alone |-> ~overlap]
    IN  /\ ~Busy(t)
        /\ id < next_id
        /\ op = "update" => inflight.done + Cardinality(updates) < MaxUpdates
        /\ inflight' = [inflight EXCEPT
                !.task = [Disturb(inflight.task, t, id) EXCEPT ![t] = Some(call)]]
        /\ UNCHANGED <<settings, memories, embeddings, collection, next_id, now, last,
                       faults, handlers, closed, pending>>

\* update goes on from self.get to the await of the embedding: a memory
\* that is not found ends the call with InvalidMemoryError; one that is
\* found gets its new content at once, in the stored object itself
TaskLoad(t) ==
    LET c == TaskCall(t)
        found == StorageGet(c.id, c.tenant)
        i == IndexOf(memories, c.id, c.tenant)
        get_metric == <<OperationMetric("get", c.tenant,
                            IF IsNone(found) THEN "not_found" ELSE "success")>>
    IN  /\ Busy(t)
        /\ c.op = "update"
        /\ c.pc = "begin"
        /\ IF IsNone(found)
           THEN /\ last' = Outcome("update", "InvalidMemoryError", c.id, c.tenant,
                                   Some(c.content), None, None, <<>>, <<>>, <<>>,
                                   get_metric)
                /\ inflight' = [inflight EXCEPT !.task[t] = None]
                /\ UNCHANGED memories
           ELSE /\ memories' = [memories EXCEPT ![i].content = Strip(c.content)]
                /\ inflight' = [inflight EXCEPT
                        !.task = [Disturb(inflight.task, t, c.id) EXCEPT
                                    ![t] = Some([c EXCEPT !.pc = "embed",
                                                          !.found = found])]]
                /\ UNCHANGED last
        /\ UNCHANGED <<settings, embeddings, collection, next_id, now, faults, handlers,
                       closed, pending>>

\* update goes on from the embedding to its end: the embedding and the
\* version are assigned to the object the call holds, storage.save stores
\* that object, the metric is recorded and the event published
TaskStore(t) ==
    LET c == TaskCall(t)
        memory == HeldObject(c.id)
        m1 == [memory EXCEPT !.embedding = Some(Embed(c.content))]
        m3 == IF VersioningOn THEN create_version(m1, <<"content">>, now) ELSE m1
        stored == StorageSave(m3)
    IN  /\ Busy(t)
        /\ c.op = "update"
        /\ c.pc = "embed"
        /\ now' = now + 1
        /\ memories' = stored[1]
        /\ embeddings' = stored[2]
        /\ collection' = stored[3]
        /\ last' = Outcome("update", "ok", c.id, c.tenant, Some(c.content), c.found,
                           Some(m3), RetryTrace(0, EmbedErrors), RetryTrace(0, SaveErrors),
                           <<MemoryEvent("memory.updated", m3.tenant_id, m3.id,
                                         Val(c.found).version)>>,
                           <<OperationMetric("get", c.tenant, "success")>>
                             \o EmbedMetrics(0)
                             \o <<OperationMetric("update", c.tenant, "success")>>)
        /\ inflight' = [inflight EXCEPT
                !.task = [Disturb(inflight.task, t, c.id) EXCEPT ![t] = None],
                !.detached = [k \in DOMAIN inflight.detached \ {c.id} |->
                                inflight.detached[k]],
                !.done = @ + 1]
        /\ UNCHANGED <<settings, next_id, faults, handlers, closed, pending>>

\* delete goes on to its end: storage.delete, the metric and the event; an
\* update that holds the removed object goes on holding it
TaskRemove(t) ==
    LET c == TaskCall(t)
        found == StorageGet(c.id, c.tenant)
        stored == StorageDelete(c.id, c.tenant)
        held == /\ ~IsNone(found)
                /\ \E o \in Tasks : /\ Busy(o)
                                    /\ TaskCall(o).id = c.id
                                    /\ TaskCall(o).pc = "embed"
    IN  /\ Busy(t)
        /\ c.op = "delete"
        /\ memories' = stored[1]
        /\ embeddings' = stored[2]
        /\ collection' = stored[3]
        /\ last' = Outcome("delete", "ok", c.id, c.tenant, None, found, None,
                           <<>>, <<"ok">>,
                           <<MemoryEvent("memory.deleted", c.tenant, c.id, 0)>>,
                           <<OperationMetric("delete", c.tenant, "success")>>)
        /\ inflight' = [inflight EXCEPT
                !.task = [Disturb(inflight.task, t, c.id) EXCEPT ![t] = None],
                !.detached = IF held
                             THEN [k \in DOMAIN inflight.detached \cup {c.id} |->
                                     IF k = c.id THEN Val(found)
                                     ELSE inflight.detached[k]]
                             ELSE @]
        /\ UNCHANGED <<settings, next_id, now, faults, handlers, closed, pending>>

\* save is one write of a new object under a new id, whatever the other
\* tasks are doing; one memory is saved for each task to work on
TaskSaveCall ==
    /\ last = Idle
    /\ next_id <= Cardinality(Tasks)
    /\ Save(<<"a">>, None, None, TRUE, None, 0, 0)

TaskBeginCall ==
    \E t \in Tasks, id \in Ids, content \in TaskTexts, op \in {"update", "delete"} :
        /\ last = Idle
        /\ op = "delete" => content = <<"b">>
        /\ TaskBegin(t, op, id, content)

TaskLoadStep ==
    \E t \in Tasks :
        /\ last = Idle
        /\ TaskLoad(t)

TaskStoreStep ==
    \E t \in Tasks :
        /\ last = Idle
        /\ TaskStore(t)

TaskRemoveStep ==
    \E t \in Tasks :
        /\ last = Idle
        /\ TaskRemove(t)

NextTasks ==
    \/ TaskSaveCall
    \/ TaskBeginCall
    \/ TaskLoadStep
    \/ TaskStoreStep
    \/ TaskRemoveStep
    \/ Return

SpecTasks == Init /\ [][NextTasks]_vars

----------------------------------------------------------------------------
(* The reference backend alone: a caller of the storage contract stores    *)
(* memories it constructed itself, with the embedding and the metadata it  *)
(* chose, and reads them back with search, list and count.                 *)

\* the Memory objects the caller constructs, but for their id
StoredKinds ==
    {[embedding |-> Some(<<1, 0>>), metadata |-> DefaultMetadata, tenant_id |-> "A"],
     [embedding |-> Some(<<0, 1>>), metadata |-> DefaultMetadata, tenant_id |-> "A"],
     [embedding |-> Some(<<1, 0>>), metadata |-> WorkMetadata, tenant_id |-> "A"],
     [embedding |-> None, metadata |-> WorkMetadata, tenant_id |-> "A"],
     [embedding |-> Some(<<1, 0>>), metadata |-> DefaultMetadata, tenant_id |-> "B"]}

\* the filters the caller passes
BackendFilters ==
    {None,
     Some([category |-> Some("work"), tags |-> None]),
     Some([category |-> None, tags |-> Some(<<"db">>)]),
     Some([category |-> None, tags |-> Some(<<"db", "staging">>)]),
     Some([category |-> Some("general"), tags |-> Some(<<>>)])}

\* the limits the caller passes: negative, zero, and up to the whole store
BackendLimits == (0 - 2)..MaxStored

\* the outcome of a call of the backend, with the arguments of the call
BackendOutcome(op, args, ret) ==
    LET base == Outcome(op, "ok", 0, args.tenant_id, None, None, ret, <<>>, <<"ok">>,
                        <<>>, <<>>)
    IN  [f \in DOMAIN base \cup {"args"} |-> IF f = "args" THEN args ELSE base[f]]

\* storage.save(Memory(id=id, content="a", ...)): a new memory, or a new
\* value for a key that is stored
BackendStore(id, kind) ==
    LET memory == NewMemory(id, <<"a">>, kind.metadata, kind.tenant_id, kind.embedding, now)
    IN  /\ id <= MaxStored
        /\ id = next_id \/ IndexOf(memories, id, kind.tenant_id) # 0
        /\ memories' = InMemorySave(memories, memory)
        /\ embeddings' = InMemorySaveEmbedding(embeddings, memory)
        /\ next_id' = IF id = next_id THEN next_id + 1 ELSE next_id
        /\ last' = BackendOutcome("backend.save", [tenant_id |-> kind.tenant_id, id |-> id],
                                  Some(memory))
        /\ UNCHANGED <<settings, rest, collection, now>>

\* storage.search(query_embedding, tenant_id, limit, filters)
BackendSearch(query_embedding, tenant, limit, filters) ==
    /\ last' = BackendOutcome("backend.search",
                              [query_embedding |-> query_embedding, tenant_id |-> tenant,
                               limit |-> limit, filters |-> filters],
                              Some(InMemorySearch(memories, query_embedding, tenant,
                                                  limit, filters)))
    /\ UNCHANGED <<settings, rest, memories, embeddings, collection, next_id, now>>

\* storage.list(tenant_id, limit, offset, filters)
BackendList(tenant, limit, offset, filters) ==
    /\ last' = BackendOutcome("backend.list",
                              [tenant_id |-> tenant, limit |-> limit, offset |-> offset,
                               filters |-> filters],
                              Some(InMemoryList(memories, tenant, limit, offset, filters)))
    /\ UNCHANGED <<settings, rest, memories, embeddings, collection, next_id, now>>

\* storage.count(tenant_id, filters)
BackendCount(tenant, filters) ==
    /\ last' = BackendOutcome("backend.count", [tenant_id |-> tenant, filters |-> filters],
                              Some(InMemoryCount(memories, tenant, filters)))
    /\ UNCHANGED <<settings, rest, memories, embeddings, collection, next_id, now>>

InitBackend ==
    /\ InitWith("memory")
    /\ settings.enable_versioning

BackendStoreCall ==
    \E id \in 1..MaxStored, kind \in StoredKinds :
        /\ last = Idle
        /\ BackendStore(id, kind)

BackendSearchCall ==
    \E query_embedding \in {<<1, 0>>, <<0, 1>>}, tenant \in Tenants,
       limit \in BackendLimits, filters \in BackendFilters :
        /\ last = Idle
        /\ BackendSearch(query_embedding, tenant, limit, filters)

\* the <<limit, offset>> the caller passes to list: the defaults, and pages
\* of one and of two memories at the start, inside and past the end of the
\* store
ListPages ==
    {<<100, 0>>, <<1, 0>>, <<1, 1>>, <<2, 1>>, <<2, 2>>, <<1, MaxStored>>}

BackendListCall ==
    \E tenant \in Tenants, page \in ListPages, filters \in BackendFilters :
        /\ last = Idle
        /\ BackendList(tenant, page[1], page[2], filters)

BackendCountCall ==
    \E tenant \in Tenants, filters \in BackendFilters :
        /\ last = Idle
        /\ BackendCount(tenant, filters)

NextBackend ==
    \/ BackendStoreCall
    \/ BackendSearchCall
    \/ BackendListCall
    \/ BackendCountCall
    \/ Return

SpecBackend == InitBackend /\ [][NextBackend]_vars

----------------------------------------------------------------------------
(* The reference backend through its life: the caller may close it, and    *)
(* goes on calling it afterwards.                                          *)

\* storage.get(memory_id, tenant_id)
BackendGet(id, tenant) ==
    /\ last' = BackendOutcome("backend.get", [tenant_id |-> tenant, id |-> id],
                              InMemoryGet(memories, id, tenant))
    /\ UNCHANGED <<settings, rest, memories, embeddings, collection, next_id, now>>

\* storage.delete(memory_id, tenant_id)
BackendDelete(id, tenant) ==
    /\ memories' = InMemoryDelete(memories, id, tenant)
    /\ embeddings' = InMemoryDeleteEmbedding(embeddings, id, tenant)
    /\ last' = BackendOutcome("backend.delete", [tenant_id |-> tenant, id |-> id], None)
    /\ UNCHANGED <<settings, rest, collection, next_id, now>>

\* InMemoryBackend.close: self._memories.clear(); self._embeddings.clear().
\* The backend keeps no mark of having been closed; `closed` is the
\* caller's knowledge that it called close.
BackendClose ==
    /\ memories' = <<>>
    /\ embeddings' = <<>>
    /\ closed' = TRUE
    /\ last' = BackendOutcome("backend.close", [tenant_id |-> ""], None)
    /\ UNCHANGED <<settings, collection, next_id, now, inflight, faults, handlers, pending>>

BackendGetCall ==
    \E id \in 1..MaxStored, tenant \in Tenants :
        /\ last = Idle
        /\ BackendGet(id, tenant)

BackendDeleteCall ==
    \E id \in 1..MaxStored, tenant \in Tenants :
        /\ last = Idle
        /\ BackendDelete(id, tenant)

BackendCloseCall ==
    /\ last = Idle
    /\ BackendClose

NextClose ==
    \/ BackendStoreCall
    \/ BackendGetCall
    \/ BackendDeleteCall
    \/ BackendSearchCall
    \/ BackendListCall
    \/ BackendCountCall
    \/ BackendCloseCall
    \/ Return

SpecClose == InitBackend /\ [][NextClose]_vars

----------------------------------------------------------------------------
(* SimpleEventBus alone: callers subscribe and unsubscribe handlers and     *)
(* publish events.                                                         *)

\* the event types the callers use
EventTypes == {"memory.created", "memory.deleted"}

\* the handlers the callers register; "bad" raises an Exception whenever
\* it is called, the others return
Handlers == {"h1", "h2", "bad"}

HandlerRaises(h) == h = "bad"

\* the outcome of a call of the event bus, with the arguments of the call
BusOutcome(op, status, args, ret) ==
    LET base == Outcome(op, status, 0, "", None, None, ret, <<>>, <<>>, <<>>, <<>>)
    IN  [f \in DOMAIN base \cup {"args"} |-> IF f = "args" THEN args ELSE base[f]]

\* self._handlers.get(event_type, [])
HandlersOf(registry, event_type) ==
    IF event_type \in DOMAIN registry THEN registry[event_type] ELSE <<>>

\* SimpleEventBus.subscribe: the list of the type is created when the type
\* is new, and the handler is appended to it
Subscribe(event_type, handler) ==
    /\ Len(HandlersOf(handlers, event_type)) < MaxSubscriptions
    /\ handlers' = [t \in DOMAIN handlers \cup {event_type} |->
                        IF t = event_type
                        THEN Append(HandlersOf(handlers, event_type), handler)
                        ELSE handlers[t]]
    /\ last' = BusOutcome("subscribe", "ok",
                          [event_type |-> event_type, handler |-> handler], None)
    /\ UNCHANGED <<settings, memories, embeddings, collection, next_id, now,
                   inflight, faults, closed, pending>>

\* a loop that calls the handlers without a try block: the first
\* exception ends it
RECURSIVE RunHandlersUnguarded(_, _)
RunHandlersUnguarded(hs, event) ==
    IF hs = <<>> THEN <<>>
    ELSE <<[handler |-> Head(hs), event |-> event, raised |-> HandlerRaises(Head(hs))]>>
         \o (IF HandlerRaises(Head(hs)) THEN <<>>
             ELSE RunHandlersUnguarded(Tail(hs), event))

\* publish: for handler in handlers: try: handler(event) except Exception.
\* The calls made, in order, each with whether the handler raised.
RECURSIVE RunHandlers(_, _)
RunHandlers(hs, event) ==
    IF hs = <<>> THEN <<>>
    ELSE <<[handler |-> Head(hs), event |-> event, raised |-> HandlerRaises(Head(hs))]>>
         \o RunHandlers(Tail(hs), event)

\* SimpleEventBus.publish
Publish(event) ==
    /\ last' = BusOutcome("publish", "ok", [event_type |-> event.event_type],
                          Some(RunHandlers(HandlersOf(handlers, event.event_type), event)))
    /\ UNCHANGED <<settings, rest, memories, embeddings, collection, next_id, now>>

\* list.remove(x): the first x is removed
RECURSIVE RemoveFirst(_, _)
RemoveFirst(hs, handler) ==
    IF hs = <<>> THEN <<>>
    ELSE IF Head(hs) = handler THEN Tail(hs)
    ELSE <<Head(hs)>> \o RemoveFirst(Tail(hs), handler)

\* SimpleEventBus.unsubscribe: if event_type in self._handlers:
\* self._handlers[event_type].remove(handler).  list.remove raises
\* ValueError when the handler is not in the list.
Unsubscribe(event_type, handler) ==
    LET args == [event_type |-> event_type, handler |-> handler] IN
    IF event_type \notin DOMAIN handlers
    THEN /\ last' = BusOutcome("unsubscribe", "ok", args, None)
         /\ UNCHANGED <<settings, rest, memories, embeddings, collection, next_id, now>>
    ELSE IF handler \notin SetOfSeq(handlers[event_type])
    THEN /\ last' = BusOutcome("unsubscribe", "ValueError", args, None)
         /\ UNCHANGED <<settings, rest, memories, embeddings, collection, next_id, now>>
    ELSE /\ handlers' = [handlers EXCEPT ![event_type] = RemoveFirst(@, handler)]
         /\ last' = BusOutcome("unsubscribe", "ok", args, None)
         /\ UNCHANGED <<settings, memories, embeddings, collection, next_id, now,
                        inflight, faults, closed, pending>>

SubscribeCall ==
    \E event_type \in EventTypes, handler \in Handlers :
        /\ last = Idle
        /\ Subscribe(event_type, handler)

UnsubscribeCall ==
    \E event_type \in EventTypes, handler \in Handlers :
        /\ last = Idle
        /\ Unsubscribe(event_type, handler)

PublishCall ==
    \E event_type \in EventTypes :
        /\ last = Idle
        /\ Publish([event_type |-> event_type])

NextBus ==
    \/ SubscribeCall
    \/ UnsubscribeCall
    \/ PublishCall
    \/ Return

SpecBus == InitBackend /\ [][NextBus]_vars

----------------------------------------------------------------------------
(* SimpleEventBus with handlers that call the bus back while publish runs. *)
(* publish is synchronous: the handlers run inside it, one after another,  *)
(* and what they do to the registry is done to the very list that the for  *)
(* loop of publish is iterating.                                           *)

\* the handlers the callers register: "h1" and "h2" return; "once"
\* unsubscribes itself; "kick" unsubscribes "h1"; "more" subscribes "new",
\* a handler that returns and that no caller registers
LiveHandlers == {"h1", "h2", "once", "kick", "more"}

\* the event type the callers use
LiveType == "memory.created"

\* handler(event), run on the list of the event's type: the list after the
\* call, and whether the call raised (list.remove of a handler that is not
\* in the list raises ValueError inside the handler)
CallHandler(h, hs) ==
    LET target == IF h = "once" THEN "once" ELSE "h1" IN
    IF h \in {"once", "kick"}
    THEN IF target \in SetOfSeq(hs)
         THEN [list |-> RemoveFirst(hs, target), raised |-> FALSE]
         ELSE [list |-> hs, raised |-> TRUE]
    ELSE IF h = "more"
    THEN [list |-> Append(hs, "new"), raised |-> FALSE]
    ELSE [list |-> hs, raised |-> HandlerRaises(h)]

\* publish: for handler in handlers, over the live list.  The iterator of
\* a list keeps the index of the next element and stops when the index
\* reaches the length the list has by then.  `i` elements have been taken.
RECURSIVE RunLive(_, _, _)
RunLive(hs, i, event) ==
    IF i >= Len(hs) THEN [list |-> hs, calls |-> <<>>]
    ELSE LET h == hs[i + 1]
             done == CallHandler(h, hs)
             later == RunLive(done.list, i + 1, event)
         IN  [list |-> later.list,
              calls |-> <<[handler |-> h, event |-> event, raised |-> done.raised]>>
                        \o later.calls]

\* SimpleEventBus.publish, with the handlers subscribed when it began
PublishLive(event) ==
    LET subscribed == HandlersOf(handlers, event.event_type)
        run == RunLive(subscribed, 0, event)
    IN  /\ event.event_type \in DOMAIN handlers
        /\ handlers' = [handlers EXCEPT ![event.event_type] = run.list]
        /\ last' = BusOutcome("publish", "ok",
                              [event_type |-> event.event_type, subscribed |-> subscribed],
                              Some(run.calls))
        /\ UNCHANGED <<settings, memories, embeddings, collection, next_id, now,
                       inflight, faults, closed, pending>>

LiveSubscribeCall ==
    \E handler \in LiveHandlers :
        /\ last = Idle
        /\ Subscribe(LiveType, handler)

LiveUnsubscribeCall ==
    \E handler \in LiveHandlers \cup {"new"} :
        /\ last = Idle
        /\ handler \in SetOfSeq(HandlersOf(handlers, LiveType))
        /\ Unsubscribe(LiveType, handler)

\* the registry is kept within MaxSubscriptions: publish is not called
\* when the handlers it runs would subscribe more than that
PublishLiveCall ==
    /\ last = Idle
    /\ Len(RunLive(HandlersOf(handlers, LiveType), 0, [event_type |-> LiveType]).list)
           <= MaxSubscriptions
    /\ PublishLive([event_type |-> LiveType])

NextLive ==
    \/ LiveSubscribeCall
    \/ LiveUnsubscribeCall
    \/ PublishLiveCall
    \/ Return

SpecLive == InitBackend /\ [][NextLive]_vars

----------------------------------------------------------------------------
(* Properties *)

\* text made of blanks only (the empty text included)
IsBlank(s) == \A i \in DOMAIN s : IsSpace(s[i])

\* non-empty text with no blank at either end
Trimmed(s) == s # <<>> /\ ~IsSpace(s[1]) /\ ~IsSpace(s[Len(s)])

\* r is c without its leading and trailing blanks
IsTrimOf(r, c) ==
    /\ Trimmed(r)
    /\ \E i \in 0..Len(c) :
        /\ i + Len(r) <= Len(c)
        /\ SubSeq(c, i + 1, i + Len(r)) = r
        /\ IsBlank(SubSeq(c, 1, i))
        /\ IsBlank(SubSeq(c, i + Len(r) + 1, Len(c)))

\* the embedding service answered the call's request
EmbedSucceeded(o) ==
    \E i \in DOMAIN o.metrics : o.metrics[i] = EmbeddingMetric("success")

\* the step is the call of `op`
IsCall(op) == last = Idle /\ last'.op = op

\* C1: when save(c, tenant=t, generate_embedding=true) has returned memory m
\* and the embedding service succeeded, get(m.id, t) returns a memory with
\* the id of m, the content trim(c) and an embedding.
C1_SaveThenGet ==
    (last.op = "save" /\ last.status = "ok" /\ EmbedSucceeded(last)) =>
        LET got == StorageGet(Val(last.ret).id, last.tenant)
        IN  /\ ~IsNone(got)
            /\ Val(got).id = Val(last.ret).id
            /\ IsTrimOf(Val(got).content, Val(last.content))
            /\ ~IsNone(Val(got).embedding)

\* save of padded content under tenant "B" returned with an embedding
C1_Witness ==
    /\ last.op = "save" /\ last.status = "ok" /\ EmbedSucceeded(last)
    /\ last.content = Some(<<" ", "b", " ">>)
    /\ last.tenant = "B"

\* the arguments of list, search and count that the isolation is checked for
FilterArgs ==
    {None,
     Some([category |-> Some("work"), tags |-> None]),
     Some([category |-> None, tags |-> Some(<<"db">>)])}

Limits == {1, MaxTime + 1}

Offsets == {0, 1}

Queries == {Embed(<<"a">>), Embed(<<"b">>)}

\* C2: a memory saved under one tenant is never returned by get, list or
\* search, nor counted by count, under another tenant, also when a memory
\* with the same id exists there; get of an id stored only under other
\* tenants returns absence and does not raise.
C2_TenantIsolation ==
    /\ last = Idle => \A t \in Tenants :
        /\ \A id \in Ids :
            LET got == StorageGet(id, t)
            IN  /\ ~IsNone(got) => Val(got).tenant_id = t
                /\ (\A i \in DOMAIN memories :
                        memories[i].id = id => memories[i].tenant_id # t) => IsNone(got)
        /\ \A f \in FilterArgs :
            /\ \A limit \in Limits, offset \in Offsets :
                \A m \in SetOfSeq(InMemoryList(memories, t, limit, offset, f)) :
                    m.tenant_id = t
            /\ \A q \in Queries, limit \in Limits :
                \A r \in SetOfSeq(InMemorySearch(memories, q, t, limit, f)) :
                    r.memory.tenant_id = t
            /\ InMemoryCount(memories, t, f)
                    <= Cardinality({i \in DOMAIN memories : memories[i].tenant_id = t})
            /\ f = None =>
                InMemoryCount(memories, t, f)
                    = Cardinality({i \in DOMAIN memories : memories[i].tenant_id = t})
    /\ last.op = "get" =>
        /\ last.status = "ok"
        /\ ~IsNone(last.ret) => Val(last.ret).tenant_id = last.tenant

\* get under "B" of an id that is stored under "A" and under "B"
C2_Witness ==
    /\ last.op = "get" /\ last.tenant = "B" /\ ~IsNone(last.ret)
    /\ \E i \in DOMAIN memories :
        memories[i].id = last.id /\ memories[i].tenant_id = "A"

\* C3: delete(id, B) neither removes nor changes a memory stored under
\* another tenant, with either storage backend.
C3_DeleteKeepsOtherTenants ==
    [][IsCall("delete") =>
        \A id \in Ids, t \in Tenants :
            t # last'.tenant => StorageGet(id, t)' = StorageGet(id, t)]_vars

\* C4: save with empty or blank content fails with InvalidMemoryError and
\* makes no embedding call and no storage write, publishes no event and
\* leaves the storage as it was.
C4_BlankSaveRejected ==
    [][(IsCall("save") /\ IsBlank(Val(last'.content))) =>
        /\ last'.status = "InvalidMemoryError"
        /\ last'.embed_calls = 0
        /\ last'.storage_calls = 0
        /\ last'.events = <<>>
        /\ UNCHANGED <<memories, embeddings, collection>>]_vars

\* save of a blank content was rejected while a memory was stored
C4_Witness ==
    /\ last.op = "save" /\ last.status = "InvalidMemoryError"
    /\ last.content = Some(<<" ">>)
    /\ memories # <<>>

\* C5: every memory in the storage has content that is not empty and has
\* no leading or trailing blank, whatever save and update were called with.
C5_StoredContentTrimmed ==
    \A i \in DOMAIN memories : Trimmed(memories[i].content)

\* update was called with a blank content on a stored memory
C5_Witness ==
    /\ last.op = "update" /\ last.content = Some(<<" ">>)
    /\ ~IsNone(last.pre)
    /\ memories # <<>>

\* C6, as claimed: every successful update returns and stores a memory
\* whose version is greater than the version it had before.
C6_VersionAlwaysIncreases ==
    (last.op = "update" /\ last.status = "ok") =>
        /\ Val(last.ret).version > Val(last.pre).version
        /\ StorageGet(last.id, last.tenant) = last.ret

\* C6, amended: with versioning enabled, every successful update returns
\* and stores a memory whose version is greater than the version it had
\* before.
C6_VersionIncreasesWhenEnabled ==
    (last.op = "update" /\ last.status = "ok" /\ settings.enable_versioning) =>
        /\ Val(last.ret).version > Val(last.pre).version
        /\ StorageGet(last.id, last.tenant) = last.ret

\* an update succeeded with versioning enabled
C6_Witness ==
    last.op = "update" /\ last.status = "ok" /\ settings.enable_versioning

\* C7: with versioning enabled, every stored memory has
\* len(versions) = version - 1, after updates that succeeded or failed.
C7_HistoryLength ==
    settings.enable_versioning =>
        \A i \in DOMAIN memories :
            Len(memories[i].versions) = memories[i].version - 1

\* an update of a memory that had been updated before failed
C7_Witness ==
    /\ settings.enable_versioning
    /\ last.op = "update" /\ last.status = "InvalidMemoryError"
    /\ ~IsNone(last.pre) /\ Val(last.pre).version > 1
    /\ \E i \in DOMAIN memories : memories[i].version > 1

\* C8: a successful update adds exactly 1 to version and appends exactly
\* one version record when versioning is enabled, and leaves version and
\* versions as they were when it is disabled.
C8_UpdateVersioning ==
    (last.op = "update" /\ last.status = "ok") =>
        LET pre == Val(last.pre)
            ret == Val(last.ret)
        IN  /\ StorageGet(last.id, last.tenant) = last.ret
            /\ IF settings.enable_versioning
               THEN /\ ret.version = pre.version + 1
                    /\ Len(ret.versions) = Len(pre.versions) + 1
                    /\ SubSeq(ret.versions, 1, Len(pre.versions)) = pre.versions
               ELSE /\ ret.version = pre.version
                    /\ ret.versions = pre.versions

\* an update that changed the content succeeded with versioning disabled
C8_Witness ==
    /\ last.op = "update" /\ last.status = "ok" /\ ~settings.enable_versioning
    /\ TruthyOpt(last.content)
    /\ Val(last.ret).content # Val(last.pre).content

\* C9: with versioning enabled, the version record that update(id,
\* content=c2) appends holds the state before the update: the version
\* number, the updated_at and the content c1 the memory had.
C9_VersionRecordIsPreUpdateState ==
    (last.op = "update" /\ last.status = "ok" /\ settings.enable_versioning
        /\ TruthyOpt(last.content)) =>
        LET pre == Val(last.pre)
            ret == Val(last.ret)
            record == ret.versions[Len(ret.versions)]
        IN  /\ record.version = pre.version
            /\ record.created_at = pre.updated_at
            /\ record.content = pre.content

\* C10: delete returns normally when the id is not stored, also when it
\* was deleted before, and then leaves the stored memories as they were.
C10_DeleteAbsentIsNoOp ==
    [][IsCall("delete") =>
        /\ last'.status = "ok"
        /\ (\A i \in DOMAIN memories : Key(memories[i]) # <<last'.id, last'.tenant>>)
                => (memories' = memories /\ embeddings' = embeddings)]_vars

\* delete of an id that save had handed out and that is stored no more,
\* while another memory is stored
C10_Witness ==
    /\ last.op = "delete" /\ last.status = "ok" /\ IsNone(last.pre)
    /\ last.id < next_id
    /\ \A i \in DOMAIN memories : memories[i].id # last.id
    /\ memories # <<>>

\* count(t) of the manager over the reference backend
CountOf(t) == InMemoryCount(memories, t, None)

\* C11: after delete(id, t) of a stored memory has returned, get(id, t)
\* returns absence and count(t) is one less than before the delete, and
\* both stay so with every later call until a save.
C11_DeletedStaysDeleted ==
    [][/\ \A t \in Tenants, id \in Ids :
            (IsCall("delete") /\ last'.id = id /\ last'.tenant = t
                /\ ~IsNone(StorageGet(id, t))) =>
                /\ last'.status = "ok"
                /\ IsNone(StorageGet(id, t)')
                /\ CountOf(t)' = CountOf(t) - 1
       /\ \A t \in Tenants :
            /\ last'.op \notin {"save", "backend.save", "delete"} =>
                    CountOf(t)' = CountOf(t)
            /\ \A id \in Ids :
                (IsNone(StorageGet(id, t)) /\ last'.op \notin {"save", "backend.save"})
                    => IsNone(StorageGet(id, t)')]_vars

\* delete of a memory that was saved and then updated has returned
C11_Witness ==
    /\ last.op = "delete" /\ last.status = "ok"
    /\ ~IsNone(last.pre) /\ Val(last.pre).version > 1
    /\ IsNone(StorageGet(last.id, last.tenant))

\* the error classes that say "not found"; InvalidMemoryError, the
\* validation error raised for empty content, is not one of them
NotFoundErrors == {"NotFoundError", "StorageNotFoundError", "MemoryNotFoundError"}

\* C12: update of an id that is not stored under the resolved tenant fails
\* with a not-found error, which is not the validation error of empty
\* content, and makes no embedding call and no storage write and publishes
\* no event.
C12_UpdateAbsentIsNotFound ==
    (last.op = "update" /\ IsNone(last.pre)) =>
        /\ last.status \in NotFoundErrors
        /\ last.status # "InvalidMemoryError"
        /\ last.embed_calls = 0
        /\ last.storage_calls = 0
        /\ last.events = <<>>

\* every attempt of the retried call failed
AllFailed(trace) == trace # <<>> /\ \A i \in DOMAIN trace : trace[i] # "ok"

\* C13: when the embedding service fails on every attempt of
\* save(content, generate_embedding=true), save returns the memory without
\* raising, with no embedding, has stored it and published the created
\* event, and get returns that memory with no embedding.
C13_SaveSurvivesEmbeddingFailure ==
    (last.op = "save" /\ AllFailed(last.embed_attempts)) =>
        /\ last.status = "ok"
        /\ IsNone(Val(last.ret).embedding)
        /\ last.storage_calls = 1
        /\ Len(last.events) = 1
        /\ last.events[1].event_type = "memory.created"
        /\ last.events[1].memory_id = Val(last.ret).id
        /\ LET got == StorageGet(Val(last.ret).id, last.tenant)
           IN  /\ ~IsNone(got)
               /\ Val(got).id = Val(last.ret).id
               /\ IsTrimOf(Val(got).content, Val(last.content))
               /\ IsNone(Val(got).embedding)

\* save under tenant "B" returned after three failed embedding attempts
C13_Witness ==
    /\ last.op = "save" /\ last.status = "ok"
    /\ last.embed_calls = MaxAttempts /\ AllFailed(last.embed_attempts)
    /\ last.tenant = "B"

\* C14: when storage.save fails on every attempt of a save or an update,
\* the call raises the error of the final attempt, as that attempt raised
\* it, and publishes no event.
C14_StorageFailureIsRaised ==
    (last.op \in {"save", "update"} /\ AllFailed(last.storage_attempts)) =>
        /\ last.status # "ok"
        /\ last.status = last.storage_attempts[Len(last.storage_attempts)]
        /\ \A i \in 1..(Len(last.storage_attempts) - 1) :
                last.status # last.storage_attempts[i]
        /\ IsNone(last.ret)
        /\ last.events = <<>>

\* an update that changed the content gave up after three failed
\* attempts to store
C14_Witness ==
    /\ last.op = "update" /\ AllFailed(last.storage_attempts)
    /\ last.storage_calls = MaxAttempts
    /\ TruthyOpt(last.content) /\ ~IsNone(last.pre)

\* the attempts of one retried call: at most 3, and each but the last failed
BoundedRetry(trace) ==
    /\ Len(trace) <= 3
    /\ \A i \in 1..(Len(trace) - 1) : trace[i] # "ok"

\* C15: within one call of the manager, embedding generation and
\* persistence are each attempted at most 3 times; an attempt is made only
\* after the one before it failed, and none follows a successful one.
C15_AtMostThreeAttempts ==
    /\ BoundedRetry(last.embed_attempts)
    /\ BoundedRetry(last.storage_attempts)
    /\ last.embed_calls <= 3
    /\ last.storage_calls <= 3

\* a save whose embedding succeeded at the third attempt and whose
\* storage.save succeeded at the second
C15_Witness ==
    /\ last.op = "save" /\ last.status = "ok"
    /\ last.embed_calls = 3 /\ last.embed_attempts[3] = "ok"
    /\ last.storage_calls = 2 /\ last.storage_attempts[2] = "ok"

\* C16: search with an empty or blank query fails with InvalidQueryError
\* before any I/O: no embedding call, no storage search, no event.
C16_BlankQueryRejected ==
    (last.op = "search" /\ IsBlank(Val(last.content))) =>
        /\ last.status = "InvalidQueryError"
        /\ last.embed_calls = 0
        /\ last.storage_calls = 0
        /\ IsNone(last.ret)
        /\ last.events = <<>>

\* search of a blank query was rejected while a memory was stored
C16_Witness ==
    /\ last.op = "search" /\ last.status = "InvalidQueryError"
    /\ last.content = Some(<<" ">>)
    /\ memories # <<>>

\* C17: when generating the query embedding fails on every attempt,
\* search raises that error, does not call storage.search, returns no
\* results and publishes no event.
C17_SearchNeedsQueryVector ==
    (last.op = "search" /\ AllFailed(last.embed_attempts)) =>
        /\ last.status # "ok"
        /\ last.status = last.embed_attempts[Len(last.embed_attempts)]
        /\ last.storage_calls = 0
        /\ IsNone(last.ret)
        /\ last.events = <<>>

\* search gave up after three failed embedding attempts while a memory
\* with an embedding was stored under the tenant searched
C17_Witness ==
    /\ last.op = "search" /\ last.embed_calls = MaxAttempts
    /\ AllFailed(last.embed_attempts)
    /\ \E i \in DOMAIN memories :
        memories[i].tenant_id = last.tenant /\ ~IsNone(memories[i].embedding)

\* C18: search of the reference backend returns at most limit results, and
\* an empty result for every limit <= 0.
C18_SearchRespectsLimit ==
    last.op = "backend.search" =>
        /\ last.args.limit <= 0 => Val(last.ret) = <<>>
        /\ last.args.limit > 0 => Len(Val(last.ret)) <= last.args.limit

\* the filter has no category or the memory's category equals it, and the
\* filter has no tags or every tag of the filter is a tag of the memory
Matches(memory, filters) ==
    IsNone(filters) \/
        /\ IsNone(Val(filters).category)
                \/ memory.metadata.category = Val(Val(filters).category)
        /\ IsNone(Val(filters).tags)
                \/ \A i \in DOMAIN Val(Val(filters).tags) :
                        \E j \in DOMAIN memory.metadata.tags :
                            memory.metadata.tags[j] = Val(Val(filters).tags)[i]

\* the stored memories of the tenant that match the filters
Matching(tenant, filters) ==
    {memories[i] : i \in {j \in DOMAIN memories :
        memories[j].tenant_id = tenant /\ Matches(memories[j], filters)}}

\* C19: search, list and count of the reference backend select the
\* memories that pass the filter: those whose category is the filter's, if
\* it has one, and whose tags include every tag of the filter, if it has
\* any; tags [db, prod] pass {tags: [db]} and not {tags: [db, staging]}.
C19_FilterPredicate ==
    /\ (last.op = "backend.list" /\ last.args.limit >= MaxStored /\ last.args.offset = 0) =>
            SetOfSeq(Val(last.ret)) = Matching(last.args.tenant_id, last.args.filters)
    /\ last.op = "backend.count" =>
            Val(last.ret) = Cardinality(Matching(last.args.tenant_id, last.args.filters))
    /\ (last.op = "backend.search" /\ last.args.limit = MaxStored) =>
            {r.memory : r \in SetOfSeq(Val(last.ret))}
                = {m \in Matching(last.args.tenant_id, last.args.filters) :
                        ~IsNone(m.embedding)}
    /\ \A i \in DOMAIN memories :
            memories[i].metadata.tags = <<"db", "prod">> =>
                /\ PassesFilters(memories[i], [category |-> None, tags |-> Some(<<"db">>)])
                /\ ~PassesFilters(memories[i],
                                  [category |-> None, tags |-> Some(<<"db", "staging">>)])

\* list with the filter {tags: [db, staging]} returned nothing while a
\* memory with the tags [db, prod] was stored under the tenant beside one
\* without tags
C19_Witness ==
    /\ last.op = "backend.list"
    /\ last.args.filters = Some([category |-> None, tags |-> Some(<<"db", "staging">>)])
    /\ Val(last.ret) = <<>>
    /\ \E i, j \in DOMAIN memories :
        /\ memories[i].tenant_id = last.args.tenant_id
        /\ memories[j].tenant_id = last.args.tenant_id
        /\ memories[i].metadata.tags = <<"db", "prod">>
        /\ memories[j].metadata.tags = <<>>

\* the cosine similarity of two vectors whose entries are 0 or 1 and of
\* which each has exactly one 1: 1 when they are equal, 0 otherwise
UnitCosine(v, w) == IF v = w THEN 1 ELSE 0

\* C20: the results of search of the reference backend are in descending
\* order of score, results of equal score in the order in which their
\* memories were first stored; for stored vectors a = [1,0], b = [0,1],
\* c = [1,0], the query [1,0] and limit 2 the result is a, c.
C20_SearchRanking ==
    last.op = "backend.search" =>
        LET results == Val(last.ret)
            query == last.args.query_embedding
            tenant == last.args.tenant_id
            Score(r) == UnitCosine(query, Val(r.memory.embedding))
            Position(r) == IndexOf(memories, r.memory.id, tenant)
        IN  /\ \A i, j \in DOMAIN results :
                i < j =>
                    /\ Score(results[i]) >= Score(results[j])
                    /\ Score(results[i]) = Score(results[j])
                            => Position(results[i]) < Position(results[j])
            /\ \A m \in Matching(tenant, last.args.filters) :
                (~IsNone(m.embedding) /\ last.args.limit >= 0
                    /\ \A r \in SetOfSeq(results) : r.memory # m) =>
                    /\ Len(results) = last.args.limit
                    /\ \A r \in SetOfSeq(results) :
                            Score(r) >= UnitCosine(query, Val(m.embedding))
            /\ (/\ [i \in DOMAIN memories |-> memories[i].embedding]
                        = <<Some(<<1, 0>>), Some(<<0, 1>>), Some(<<1, 0>>)>>
                 /\ \A i \in DOMAIN memories : memories[i].tenant_id = tenant
                 /\ query = <<1, 0>> /\ last.args.limit = 2
                 /\ IsNone(last.args.filters))
                    => [i \in DOMAIN results |-> results[i].memory]
                            = <<memories[1], memories[3]>>

\* the search of the example: a, b, c stored, query [1,0], limit 2
C20_Witness ==
    /\ last.op = "backend.search"
    /\ [i \in DOMAIN memories |-> memories[i].embedding]
            = <<Some(<<1, 0>>), Some(<<0, 1>>), Some(<<1, 0>>)>>
    /\ \A i \in DOMAIN memories : memories[i].tenant_id = last.args.tenant_id
    /\ last.args.query_embedding = <<1, 0>> /\ last.args.limit = 2
    /\ IsNone(last.args.filters)
    /\ Len(Val(last.ret)) = 2

----------------------------------------------------------------------------
\* the stored memories of the tenant that match the filters, in the order
\* of the store
MatchingSeq(tenant, filters) ==
    SelectSeq(memories, LAMBDA m : m.tenant_id = tenant /\ Matches(m, filters))

\* the entries of s at the positions offset .. offset + limit - 1, counted
\* from 0, as far as s has them
Positions(s, offset, limit) ==
    LET n == IF offset + limit <= Len(s) THEN limit ELSE Len(s) - offset
    IN  [i \in 1..n |-> s[offset + i]]

\* page k of the pages of size L: list(tenant, L, k * L, filters) on the
\* store as it is
Page(tenant, filters, L, k) == InMemoryList(memories, tenant, L, k * L, filters)

RECURSIVE PagesUpTo(_, _, _, _)
PagesUpTo(tenant, filters, L, k) ==
    IF k < 0 THEN <<>>
    ELSE PagesUpTo(tenant, filters, L, k - 1) \o Page(tenant, filters, L, k)

\* C21: list(tenant, limit, offset, filters) of the reference backend
\* returns the entries at the positions offset .. offset + limit - 1 of the
\* tenant's matching memories in the order of the store; with no write in
\* between, the pages of a size L > 0 at the offsets 0, L, 2L, ... are
\* pairwise disjoint and make up, one after the other, the whole matching
\* sequence, which has count(tenant, filters) entries; count does not
\* depend on a limit or an offset.
C21_Pagination ==
    /\ last.op = "backend.list" =>
          LET t == last.args.tenant_id
              f == last.args.filters
              fs == MatchingSeq(t, f)
          IN  /\ Val(last.ret) = Positions(fs, last.args.offset, last.args.limit)
              /\ last.args.offset = 0 /\ last.args.limit >= MaxStored =>
                    \A L \in 1..MaxStored :
                        /\ \A j \in 0..MaxStored, k \in 0..MaxStored :
                              j < k => SetOfSeq(Page(t, f, L, j))
                                          \cap SetOfSeq(Page(t, f, L, k)) = {}
                        /\ PagesUpTo(t, f, L, MaxStored) = fs
                        /\ Len(fs) = InMemoryCount(memories, t, f)
    /\ last.op = "backend.count" =>
          Val(last.ret) = Len(MatchingSeq(last.args.tenant_id, last.args.filters))

\* list returned the second of three matching memories as the page of size
\* one at offset one
C21_Witness ==
    /\ last.op = "backend.list"
    /\ last.args.limit = 1
    /\ last.args.offset = 1
    /\ Len(MatchingSeq(last.args.tenant_id, last.args.filters)) = 3
    /\ Val(last.ret) = <<MatchingSeq(last.args.tenant_id, last.args.filters)[2]>>

----------------------------------------------------------------------------
\* the operations of the storage contract that read or write memories
BackendOps ==
    {"backend.save", "backend.get", "backend.delete", "backend.search",
     "backend.list", "backend.count"}

\* C22: after close() on a storage backend, every later save, get,
\* delete, search, list or count on it fails with an operation-class
\* storage error.
C22_ClosedBackendRefuses ==
    (closed /\ last.op \in BackendOps) => last.status = "StorageOperationError"

----------------------------------------------------------------------------
\* C23: publish(event) calls every handler subscribed to the type of the
\* event once for each of its subscriptions, in the order of the
\* subscriptions, and no handler subscribed to another type only; when a
\* handler raises, the handlers after it are still called and publish
\* returns normally.
C23_PublishCallsEveryHandler ==
    last.op = "publish" =>
        LET calls == Val(last.ret)
            subscribed == IF last.args.event_type \in DOMAIN handlers
                          THEN handlers[last.args.event_type] ELSE <<>>
        IN  /\ last.status = "ok"
            /\ Len(calls) = Len(subscribed)
            /\ \A i \in DOMAIN calls :
                    /\ calls[i].handler = subscribed[i]
                    /\ calls[i].event.event_type = last.args.event_type

\* an event was published to three subscriptions of its type, the second
\* of which raised, while the other type had a handler of its own
C23_Witness ==
    /\ last.op = "publish"
    /\ last.status = "ok"
    /\ Len(Val(last.ret)) = 3
    /\ Val(last.ret)[1].handler = "h1"
    /\ Val(last.ret)[2].raised
    /\ Val(last.ret)[3].handler = "h1"
    /\ \E t \in DOMAIN handlers :
            t # last.args.event_type /\ "h2" \in SetOfSeq(handlers[t])

\* C24: unsubscribe(event_type, handler) for a handler that is not
\* registered for the type raises nothing and leaves the registry as it
\* is, both when the type has no handlers and when it has other handlers.
C24_UnsubscribeUnknownIsNoOp ==
    [][\A t \in EventTypes, h \in Handlers :
        (/\ IsCall("unsubscribe")
         /\ last'.args = [event_type |-> t, handler |-> h]
         /\ h \notin SetOfSeq(HandlersOf(handlers, t)))
        => (last'.status = "ok" /\ handlers' = handlers)]_vars

----------------------------------------------------------------------------
\* the one event a call published, of the given type and tenant
PublishedOne(o, event_type) ==
    /\ Len(o.events) = 1
    /\ o.events[1].event_type = event_type
    /\ o.events[1].tenant_id = o.tenant

\* C25: each successful save, update, delete and search publishes exactly
\* one event, of type memory.created, memory.updated (with the version
\* the memory had before the update), memory.deleted and memory.searched
\* (with the number of results returned), tagged with the tenant the call
\* resolved; get, list, count and every call that raises publish nothing.
C25_OneEventPerSuccess ==
    /\ (last.op = "save" /\ last.status = "ok") =>
            /\ PublishedOne(last, "memory.created")
            /\ last.events[1].memory_id = Val(last.ret).id
    /\ (last.op = "update" /\ last.status = "ok") =>
            /\ PublishedOne(last, "memory.updated")
            /\ last.events[1].memory_id = last.id
            /\ last.events[1].previous_version = Val(last.pre).version
    /\ (last.op = "delete" /\ last.status = "ok") =>
            /\ PublishedOne(last, "memory.deleted")
            /\ last.events[1].memory_id = last.id
    /\ (last.op = "search" /\ last.status = "ok") =>
            /\ PublishedOne(last, "memory.searched")
            /\ last.events[1].result_count = Len(Val(last.ret))
    /\ last.op \in {"get", "list", "count"} => last.events = <<>>
    /\ (last.op \in {"save", "get", "update", "delete", "search", "list", "count"}
            /\ last.status # "ok") => last.events = <<>>

\* an update of a memory of tenant B at version 1 published one
\* memory.updated event for tenant B that carries the version 1
C25_Witness ==
    /\ last.op = "update"
    /\ last.status = "ok"
    /\ last.tenant = "B"
    /\ Val(last.ret).version = 2
    /\ last.events = <<MemoryEvent("memory.updated", "B", last.id, 1)>>

----------------------------------------------------------------------------
\* the calls of the manager that take a tenant
ManagerOps == {"save", "get", "update", "delete", "search", "list", "count"}

\* C26: every call of the manager works under the tenant that was passed
\* to it, or under the configured one when none was passed, and every
\* stored memory has a tenant_id that is not empty, whatever the tenant
\* argument (the empty string included) and the configured tenant are.
C26_TenantNeverEmpty ==
    /\ last.op \in ManagerOps =>
            /\ last.tenant \in {settings.tenant_id, "B"}
            /\ last.tenant # ""
    /\ \A i \in DOMAIN memories : memories[i].tenant_id # ""

----------------------------------------------------------------------------
\* C27: in save, a ttl_days that is passed decides expires_at (the time of
\* the call plus ttl_days) whatever the configured default is, for every
\* integer, zero and the negative ones included; the configured default
\* is used only when no ttl_days is passed; with neither, expires_at
\* stays absent.
C27_ExplicitTtlDecides ==
    [][\A ttl_days \in TtlArgs :
        (last = Idle /\ Save(<<"a">>, None, None, FALSE, ttl_days, 0, 0)) =>
            Val(last'.ret).expires_at =
                IF ~IsNone(ttl_days) THEN Some(now + Val(ttl_days))
                ELSE IF ~IsNone(settings.default_ttl_days)
                     THEN Some(now + Val(settings.default_ttl_days))
                     ELSE None]_vars

\* C28: is_expired() is true of every memory whose expires_at is set and
\* lies before the current time, false of every memory without an
\* expires_at, and false of a memory that was just saved with a positive
\* ttl_days; it leaves the memory and the store as they are.
C28_IsExpired ==
    [][/\ IsCall("is_expired") =>
            LET m == Val(last'.pre) IN
            /\ Val(last'.ret).expired = ((~IsNone(m.expires_at)) /\ Val(m.expires_at) < now)
            /\ IsNone(m.expires_at) => ~Val(last'.ret).expired
            /\ Val(last'.ret).memory = m
            /\ memories' = memories
       /\ \A ttl_days \in TtlArgs :
            (/\ last = Idle
             /\ ~IsNone(ttl_days)
             /\ Val(ttl_days) > 0
             /\ Save(<<"a">>, None, None, FALSE, ttl_days, 0, 0))
            => ~is_expired(Val(last'.ret), now')]_vars

\* a memory that was saved with ttl_days = 1 at time 0 was asked at time 2
\* and answered that it has expired
C28_Witness ==
    /\ last.op = "is_expired"
    /\ Val(last.pre).expires_at = Some(1)
    /\ now = 2
    /\ Val(last.ret).expired

----------------------------------------------------------------------------
\* what a call raises when a collaborator's error leaves it
CollaboratorErrors == {"MetricsError", "EventBusError"}

\* no call to the storage failed, and a search got its query vector from
\* the embedding service
PrimaryWorkSucceeded(o) ==
    /\ \A i \in DOMAIN o.storage_attempts : o.storage_attempts[i] = "ok"
    /\ o.op = "search" =>
            \E i \in DOMAIN o.embed_attempts : o.embed_attempts[i] \notin SetOfSeq(EmbedErrors)

\* C29: an exception raised by the metrics recorder or by the publish of
\* the event bus never makes save, get, update, delete or search fail when
\* the work of the call itself (validation, the storage read or write,
\* the search) succeeded.
C29_CollaboratorsNeverFailTheCall ==
    (last.op \in {"save", "get", "update", "delete", "search"}
        /\ PrimaryWorkSucceeded(last))
    => last.status \notin CollaboratorErrors

----------------------------------------------------------------------------
\* the position of a step in the record of the calls that ran together, 0
\* when the step is not in it
StepAt(call, what) ==
    LET at == {i \in DOMAIN pending.events :
                    pending.events[i].call = call /\ pending.events[i].what = what}
    IN  IF at = {} THEN 0 ELSE CHOOSE i \in at : TRUE

\* the step that ended the update: its save, or the get that found nothing
UpdateEnd ==
    IF StepAt("update", "save") > 0 THEN StepAt("update", "save")
    ELSE StepAt("update", "not_found")

\* an update and a delete of the same key have both ended, each began
\* before the other ended, and the key was stored when the first began
RaceOver ==
    /\ IsNone(pending.update)
    /\ IsNone(pending.delete)
    /\ StepAt("update", "begin") > 0
    /\ StepAt("delete", "begin") > 0
    /\ pending.events[StepAt("update", "begin")].key
            = pending.events[StepAt("delete", "begin")].key
    /\ pending.events[1].stored
    /\ StepAt("update", "begin") < StepAt("delete", "remove")
    /\ StepAt("delete", "begin") < UpdateEnd

RaceKey == pending.events[StepAt("update", "begin")].key

\* the memory stored under the key of the race, if there is one
RaceStored == StorageGet(RaceKey[1], RaceKey[2])

\* the last write decides: the key is absent when the removal came after
\* the save, and holds the content of the update when the save came after
\* the removal
LastWriteDecides ==
    /\ StepAt("delete", "remove") > StepAt("update", "save") => IsNone(RaceStored)
    /\ StepAt("update", "save") > StepAt("delete", "remove") =>
            /\ ~IsNone(RaceStored)
            /\ IsTrimOf(Val(RaceStored).content,
                        pending.events[StepAt("update", "begin")].content)

\* C30 as stated: when an update and a delete of the same id and tenant
\* overlap, neither raises, and the last storage write decides what is
\* stored.
C30_RaceNeverRaises ==
    RaceOver =>
        /\ StepAt("update", "not_found") = 0
        /\ StepAt("update", "save") > 0
        /\ LastWriteDecides

\* C30: when an update and a delete of the same id and tenant overlap and
\* the update has read the memory before the removal, neither raises and
\* the last storage write decides what is stored: nothing when the removal
\* came after the save, the memory with the content of the update when the
\* save came after the removal.  When the removal came before the update
\* read the memory, the update ends with its not-found error and nothing
\* is stored.
C30_LastWriteWins ==
    RaceOver =>
        /\ StepAt("update", "get") > 0 =>
                /\ StepAt("update", "save") > 0
                /\ StepAt("update", "not_found") = 0
                /\ LastWriteDecides
        /\ StepAt("update", "get") = 0 =>
                /\ StepAt("delete", "remove") < StepAt("update", "not_found")
                /\ IsNone(RaceStored)

\* the update began, the delete began, the update read the memory, the
\* delete removed it, and the update saved it again with its content
C30_Witness ==
    /\ RaceOver
    /\ StepAt("update", "begin") = 1
    /\ StepAt("delete", "begin") = 2
    /\ StepAt("update", "get") = 3
    /\ StepAt("delete", "remove") = 4
    /\ StepAt("update", "save") = 5
    /\ ~IsNone(RaceStored)
    /\ Val(RaceStored).content = <<"b">>

----------------------------------------------------------------------------
\* the task took a step of its call: it began it, went on with it or ended it
Stepped(t) ==
    \/ Busy(t) # (~IsNone(inflight'.task[t]))
    \/ /\ Busy(t)
       /\ ~IsNone(inflight'.task[t])
       /\ TaskCall(t).pc # Val(inflight'.task[t]).pc

\* the id of the call whose step the task took
SteppedId(t) == IF Busy(t) THEN TaskCall(t).id ELSE Val(inflight'.task[t]).id

\* the entry of InMemoryBackend._embeddings under the key
StoredEmbedding(embs, id, tenant) ==
    IF <<id, tenant>> \in DOMAIN embs THEN Some(embs[<<id, tenant>>]) ELSE None

\* what update(id, content) returns and stores when it runs alone on the
\* memory `before`
UpdatedAlone(before, content) ==
    [content |-> Strip(content),
     metadata |-> before.metadata,
     embedding |-> Some(Embed(content)),
     version |-> IF VersioningOn THEN before.version + 1 ELSE before.version,
     versions |-> IF VersioningOn
                  THEN Append(before.versions,
                              [version |-> before.version,
                               created_at |-> before.updated_at,
                               content |-> Strip(content),
                               changed_fields |-> <<"content">>])
                  ELSE before.versions]

\* the fields of a memory that the independence of the ids is about
Essence(m) ==
    [content |-> m.content, metadata |-> m.metadata, embedding |-> m.embedding,
     version |-> m.version, versions |-> m.versions]

\* C31: a step of a save, an update or a delete leaves the stored memory
\* (and the stored embedding) of every other id as it is, and an update or
\* a delete that overlaps with no call on its own id ends as it would have
\* ended alone: delete succeeds and the id is absent; update of an absent id
\* raises InvalidMemoryError; update of a stored id returns and stores the
\* memory it found at its start with the new content, the embedding of the
\* new content and the next version.
C31_DifferentIdsIndependent ==
    [][/\ \A y \in Ids :
            (y < next_id /\ \A t \in Tasks : Stepped(t) => SteppedId(t) # y)
                => /\ StorageGet(y, settings.tenant_id)'
                        = StorageGet(y, settings.tenant_id)
                   /\ StoredEmbedding(embeddings, y, settings.tenant_id)'
                        = StoredEmbedding(embeddings, y, settings.tenant_id)
       /\ \A t \in Tasks, id \in Ids :
            (Busy(t) /\ IsNone(inflight'.task[t]) /\ TaskCall(t).alone
                /\ TaskCall(t).id = id)
                => LET c == TaskCall(t)
                       after == StorageGet(id, settings.tenant_id)'
                   IN  /\ last'.id = id
                       /\ IF c.op = "delete"
                          THEN last'.op = "delete" /\ last'.status = "ok" /\ IsNone(after)
                          ELSE IF IsNone(c.before)
                          THEN /\ last'.op = "update"
                               /\ last'.status = "InvalidMemoryError"
                               /\ IsNone(after)
                          ELSE /\ last'.op = "update"
                               /\ last'.status = "ok"
                               /\ Essence(Val(last'.ret))
                                    = UpdatedAlone(Val(c.before), c.content)
                               /\ after = last'.ret]_vars

\* a delete of id 1, which was stored, has ended while an update of id 2
\* is suspended at the embedding, and both memories had been stored
C31_Witness ==
    /\ last.op = "delete"
    /\ last.id = 1
    /\ ~IsNone(last.pre)
    /\ \E t \in Tasks :
        /\ Busy(t)
        /\ TaskCall(t).op = "update"
        /\ TaskCall(t).id = 2
        /\ TaskCall(t).pc = "embed"
        /\ TaskCall(t).alone
        /\ ~IsNone(StorageGet(2, settings.tenant_id))

----------------------------------------------------------------------------
\* the stored memories of the tenant that have an embedding and pass the
\* filters
PassingEmbedded(tenant, filters) ==
    {m \in Matching(tenant, filters) : ~IsNone(m.embedding)}

\* how many of the memories come before m in the order of the scores:
\* those of a higher score, and those of the same score stored earlier
RankAmong(ms, m, query, tenant) ==
    Cardinality({o \in ms :
        \/ UnitCosine(query, Val(o.embedding)) > UnitCosine(query, Val(m.embedding))
        \/ /\ UnitCosine(query, Val(o.embedding)) = UnitCosine(query, Val(m.embedding))
           /\ IndexOf(memories, o.id, tenant) < IndexOf(memories, m.id, tenant)})

\* C32: for limit >= 0, search of the reference backend returns the first
\* `limit` entries of the score-ordered list of the tenant's embedded
\* memories that pass the filter: every result passes the filter, the k-th
\* result is the passing memory with k-1 passing memories before it, and
\* there are min(limit, number of passing embedded memories) results.
C32_FilterBeforeRanking ==
    (last.op = "backend.search" /\ last.args.limit >= 0) =>
        LET results == Val(last.ret)
            tenant == last.args.tenant_id
            passing == PassingEmbedded(tenant, last.args.filters)
        IN  /\ Len(results) = Min(last.args.limit, Cardinality(passing))
            /\ \A k \in DOMAIN results :
                /\ results[k].memory \in passing
                /\ RankAmong(passing, results[k].memory,
                             last.args.query_embedding, tenant) = k - 1

\* a search with a filter and limit 1 returned a passing memory although a
\* memory that fails the filter has a higher score
C32_Witness ==
    /\ last.op = "backend.search"
    /\ last.args.limit = 1
    /\ ~IsNone(last.args.filters)
    /\ Len(Val(last.ret)) = 1
    /\ \E i \in DOMAIN memories :
        /\ memories[i].tenant_id = last.args.tenant_id
        /\ ~IsNone(memories[i].embedding)
        /\ ~Matches(memories[i], last.args.filters)
        /\ UnitCosine(last.args.query_embedding, Val(memories[i].embedding))
                > UnitCosine(last.args.query_embedding,
                             Val(Val(last.ret)[1].memory.embedding))

----------------------------------------------------------------------------
\* the stored memories of the tenant
StoredOf(tenant) ==
    {memories[i] : i \in {j \in DOMAIN memories : memories[j].tenant_id = tenant}}

\* the stored memories of the tenant that have no embedding
Unembedded(tenant) == {m \in StoredOf(tenant) : IsNone(m.embedding)}

\* C33: a memory that is stored without an embedding is in no result of
\* search and does not make search raise (search raises only for a blank
\* query or when the query could not be embedded), while get returns it,
\* list returns it and count counts it.
C33_UnembeddedOnlyOutsideSearch ==
    /\ last = Idle =>
        \A t \in Tenants :
            /\ \A m \in Unembedded(t) :
                /\ \A q \in Queries, limit \in Limits, f \in FilterArgs :
                    \A r \in SetOfSeq(InMemorySearch(memories, q, t, limit, f)) :
                        r.memory # m
                /\ StorageGet(m.id, t) = Some(m)
                /\ m \in SetOfSeq(StorageList(t, 100, 0, None))
            /\ StorageCount(t, None) = Cardinality(StoredOf(t))
    /\ (last.op = "search" /\ last.status = "ok") =>
            \A r \in SetOfSeq(Val(last.ret)) : ~IsNone(r.memory.embedding)
    /\ (last.op = "search" /\ last.status # "ok" /\ Unembedded(last.tenant) # {}) =>
            \/ last.status = "InvalidQueryError" /\ IsBlank(Val(last.content))
            \/ AllFailed(last.embed_attempts)
    /\ (last.op = "get" /\ last.status = "ok") =>
            \A m \in Unembedded(last.tenant) : m.id = last.id => last.ret = Some(m)
    /\ (last.op = "list" /\ last.status = "ok") =>
            Unembedded(last.tenant) \subseteq SetOfSeq(Val(last.ret))
    /\ (last.op = "count" /\ last.status = "ok") =>
            Val(last.ret) = Cardinality(StoredOf(last.tenant))

\* search found nothing, and did not raise, under a tenant whose only
\* stored memories have no embedding
C33_Witness ==
    /\ last.op = "search"
    /\ last.status = "ok"
    /\ Val(last.ret) = <<>>
    /\ last.storage_calls = 1
    /\ Unembedded(last.tenant) # {}
    /\ Unembedded(last.tenant) = StoredOf(last.tenant)

----------------------------------------------------------------------------
\* C34: every successful update leaves the memory, as returned and as
\* stored, with an updated_at later than the one it had before the call,
\* with versioning enabled or disabled, whatever was supplied.
C34_UpdatedAtAdvances ==
    (last.op = "update" /\ last.status = "ok") =>
        /\ Val(last.ret).updated_at > Val(last.pre).updated_at
        /\ Val(StorageGet(last.id, last.tenant)).updated_at > Val(last.pre).updated_at

----------------------------------------------------------------------------
\* C35: whenever save, update, delete or search raises, an operation
\* metric with status "error" was recorded for that operation: after a
\* validation failure, an update of an unknown id, a persistence failure
\* and a failure to embed the query alike.
C35_ErrorMetricRecorded ==
    (last.op \in {"save", "update", "delete", "search"} /\ last.status # "ok") =>
        \E i \in DOMAIN last.metrics :
            last.metrics[i] = OperationMetric(last.op, last.tenant, "error")

----------------------------------------------------------------------------
\* the attempts and the waits of one retried call are those of the
\* configured policy
FollowsRetryConfig(trace) ==
    LET delays == RetryDelays(trace)
        policy == settings.retry
    IN  /\ Len(trace) <= policy.max_attempts
        /\ \A k \in DOMAIN delays :
            /\ delays[k] = Min(policy.max_delay,
                               policy.initial_delay * Pow(policy.exponential_base, k - 1))
            /\ delays[k] <= policy.max_delay
            /\ k > 1 => delays[k - 1] <= delays[k]

\* C36: the retry wrappers follow settings.retry: at most max_attempts
\* attempts, and before attempt k+1 a delay of
\* min(max_delay, initial_delay * exponential_base^(k-1)), so the delays do
\* not decrease and do not exceed max_delay.
C36_RetryFollowsConfig ==
    last.op \in {"save", "search"} =>
        /\ FollowsRetryConfig(last.embed_attempts)
        /\ FollowsRetryConfig(last.storage_attempts)

----------------------------------------------------------------------------
\* C37: with an embedding service that does not fail, whenever no call is
\* in flight the embedding of each stored memory is the one generated for
\* its content, the content that the latest save or update to set it
\* supplied; also after two updates of one id with different contents ran
\* at the same time.
C37_EmbeddingFollowsContent ==
    (\A t \in Tasks : ~Busy(t)) =>
        \A i \in DOMAIN memories :
            /\ memories[i].embedding = Some(Embed(memories[i].content))
            /\ StoredEmbedding(embeddings, memories[i].id, memories[i].tenant_id)
                    = Some(Embed(memories[i].content))

----------------------------------------------------------------------------
\* what get returns, without the timestamps
EssenceOf(got) == IF IsNone(got) THEN None ELSE Some(Essence(Val(got)))

\* C38: an update that raises (the id is unknown, the content is blank, or
\* every attempt to persist failed) leaves the store as it was: what get
\* returns for any id under any tenant has the content, metadata,
\* embedding, version and versions it had before the call.
C38_FailedUpdateChangesNothing ==
    [][(last'.op = "update" /\ last'.status # "ok") =>
            \A id \in Ids, t \in Tenants :
                EssenceOf(StorageGet(id, t))' = EssenceOf(StorageGet(id, t))]_vars

\* an update with new content and new metadata has raised the error of
\* the last of three failed attempts to persist, and the stored memory has
\* neither
C38_Witness ==
    /\ last.op = "update"
    /\ last.status = SaveErrors[MaxAttempts]
    /\ ~IsNone(last.pre)
    /\ TruthyOpt(last.content)
    /\ LET got == StorageGet(last.id, last.tenant)
       IN  /\ ~IsNone(got)
           /\ Val(got).content # Strip(Val(last.content))
           /\ Val(got).metadata = DefaultMetadata
           /\ Val(got).content = Val(last.pre).content

----------------------------------------------------------------------------
\* how often h occurs in the sequence
RECURSIVE Occurrences(_, _)
Occurrences(hs, h) ==
    IF hs = <<>> THEN 0
    ELSE (IF Head(hs) = h THEN 1 ELSE 0) + Occurrences(Tail(hs), h)

\* the handlers that no handler unsubscribes
NeverUnsubscribed == {"h2", "kick", "more"}

\* C39: publish ends, and when handlers unsubscribe themselves or another
\* handler, or subscribe a new one, while it runs, every other handler
\* subscribed when publish began is called exactly once for each of its
\* subscriptions.
C39_PublishSurvivesReentrancy ==
    last.op = "publish" =>
        /\ last.status = "ok"
        /\ \A h \in NeverUnsubscribed :
            Occurrences([i \in DOMAIN Val(last.ret) |-> Val(last.ret)[i].handler], h)
                = Occurrences(last.args.subscribed, h)

----------------------------------------------------------------------------
\* C40: over ChromaDBBackend, get after the save of a memory m (the save of
\* MemoryManager.save or of MemoryManager.update) returns a memory with the
\* version, version history, created_at and expires_at of m, so the version
\* an update returns is one more than that of the update before it.
C40_ChromaKeepsVersions ==
    (settings.backend = "chromadb" /\ last.op \in {"save", "update"} /\ last.status = "ok") =>
        LET m == Val(last.ret)
            got == StorageGet(m.id, m.tenant_id)
        IN  /\ ~IsNone(got)
            /\ Val(got).version = m.version
            /\ Val(got).versions = m.versions
            /\ Val(got).created_at = m.created_at
            /\ Val(got).expires_at = m.expires_at

====
